---- MODULE Spec2Model ----
(***************************************************************************)
(* Verification model of the AI coding evaluation framework: the event     *)
(* store (src/database/models.py), the logger that appends to it           *)
(* (src/logging/logger.py) and the metrics engine that reads it            *)
(* (src/analysis/metrics_calculator.py).                                   *)
(*                                                                         *)
(* Conventions.  test_sessions is the sequence of its rows, the row id      *)
(* being the index.  A child table is the bag of its rows without the id    *)
(* column, which nothing reads.  An Optional value is a set: {} is None,    *)
(* {v} is the value v.  A datetime is an integer number of minutes.  A      *)
(* float produced by a division is an exact fraction <<n, d>> in lowest     *)
(* terms with d > 0.  A string that carries the reserved markers is the     *)
(* sequence of its pieces, each piece being a marker or marker-free text.   *)
(* in_flight holds, for each further logger instance, the sequence number  *)
(* it has read and not yet inserted.  connections is the number of         *)
(* data-store sessions the metrics engine has opened and not closed.       *)
(* timing_phases is the heap of TimingPhase objects, current_phase and     *)
(* completed_phases refer to them by index.                                *)
(***************************************************************************)
EXTENDS Integers, Sequences, FiniteSets, Bags, TLC

VARIABLES test_sessions, ai_interactions, code_changes, development_milestones,
          build_results, developer_feedback, current_session_id, result,
          in_flight, connections, timing_phases, current_phase, completed_phases,
          manager

vars == <<test_sessions, ai_interactions, code_changes, development_milestones,
          build_results, developer_feedback, current_session_id, result,
          in_flight, connections, timing_phases, current_phase, completed_phases,
          manager>>

\* The store and the logger.
store_vars == <<test_sessions, ai_interactions, code_changes, development_milestones,
                build_results, developer_feedback, current_session_id>>

\* The timing tracker and the session manager that holds it.
monitor_vars == <<timing_phases, current_phase, completed_phases, manager>>

\* ---------------------------------------------------------------- bounds
MaxTime == 1
MaxSessions == 3
MaxMilestones == 3
MaxInteractions == 2
MaxBuilds == 2
MaxChanges == 2
MaxFeedback == 3
MaxLoggers == 2
MaxPhases == 3

Times == 0 .. MaxTime

\* The further logger instances that write to a session.
Loggers == 1 .. MaxLoggers

\* ---------------------------------------------------------------- values
None == {}

Some(v) == {v}

Value(opt) == CHOOSE v \in opt : TRUE

\* Python's "x or default" on an Optional number: None and 0 both give default.
OrElse(opt, default) == IF opt = None \/ opt = Some(0) THEN default ELSE Value(opt)

RECURSIVE GCD(_, _)
GCD(a, b) == IF b = 0 THEN a ELSE GCD(b, a % b)

Abs(n) == IF n < 0 THEN 0 - n ELSE n

\* The float n / d for d > 0, as a fraction in lowest terms.
Frac(n, d) == LET g == GCD(Abs(n), d) IN <<n \div g, d \div g>>

Zero == <<0, 1>>

FracAdd(x, y) == Frac(x[1] * y[2] + y[1] * x[2], x[2] * y[2])

\* Mutant of FracHalf: the sum of the two rates is not divided by 2.
FracHalf_Whole(x) == x

FracHalf(x) == Frac(x[1], 2 * x[2])

RECURSIVE SumOver(_, _)
SumOver(S, f) ==
    IF S = {} THEN 0
    ELSE LET x == CHOOSE y \in S : TRUE IN f[x] + SumOver(S \ {x}, f)

\* ---------------------------------------------------------------- strings
phase_start_ == "phase_start_"
phase_complete_ == "phase_complete_"

startswith(name, prefix) == Len(name) > 0 /\ name[1] = prefix

\* str.replace(marker, ''): every occurrence of the marker is deleted.
replace(name, marker) == SelectSeq(name, LAMBDA piece : piece # marker)

\* The milestones of the phases A and B, and the completion of a phase
\* that is itself named 'phase_complete_A'.
PlainNames ==
    { <<phase_start_, "A">>, <<phase_complete_, "A">>,
      <<phase_start_, "B">>, <<phase_complete_, "B">> }

MilestoneNames == PlainNames \cup { <<phase_complete_, phase_complete_, "A">> }

\* ---------------------------------------------------------------- store
\* The distinct rows of a child table that belong to the session.
RowsOf(table, session_id) ==
    { row \in BagToSet(table) : row.session_id = session_id }

Insert(table, row) == table (+) SetToBag({row})

\* How many rows of the table are in the set of distinct rows.
CountRows(table, rows) == SumOver(rows, [row \in rows |-> CopiesIn(row, table)])

\* The sum of f over the table's rows in the set of distinct rows.
SumRows(table, rows, f(_)) ==
    SumOver(rows, [row \in rows |-> CopiesIn(row, table) * f(row)])

SessionExists(session_id) == session_id \in 1 .. Len(test_sessions)

\* Mutant of OrderByTimestamp: the query without its order_by clause.
OrderByTimestamp_Unordered(table, rows) ==
    { q \in [1 .. CountRows(table, rows) -> rows] :
        \A row \in rows :
            Cardinality({ i \in DOMAIN q : q[i] = row }) = CopiesIn(row, table) }

\* Query results of ".order_by(timestamp).all()": the rows sorted by
\* timestamp; SQL leaves the order of rows with equal keys unspecified.
OrderByTimestamp(table, rows) ==
    { q \in [1 .. CountRows(table, rows) -> rows] :
        /\ \A row \in rows :
              Cardinality({ i \in DOMAIN q : q[i] = row }) = CopiesIn(row, table)
        /\ \A i, j \in DOMAIN q : i < j => q[i].timestamp <= q[j].timestamp }

Init ==
    /\ test_sessions = <<>>
    /\ ai_interactions = EmptyBag
    /\ code_changes = EmptyBag
    /\ development_milestones = EmptyBag
    /\ build_results = EmptyBag
    /\ developer_feedback = EmptyBag
    /\ current_session_id = None
    /\ result = [kind |-> "None"]
    /\ in_flight = [logger \in Loggers |-> None]
    /\ connections = 0
    /\ timing_phases = <<>>
    /\ current_phase = None
    /\ completed_phases = <<>>
    /\ manager = [session_id |-> 1, is_active |-> FALSE, timing_tracker |-> FALSE]

\* ---------------------------------------------------------------- logger
start_session(tool_name, test_case_type, now) ==
    /\ Len(test_sessions) < MaxSessions
    /\ test_sessions' = Append(test_sessions,
          [tool_name |-> tool_name, test_case_type |-> test_case_type,
           start_time |-> now, end_time |-> None, status |-> "in_progress"])
    /\ current_session_id' = Some(Len(test_sessions) + 1)
    /\ result' = [kind |-> "int", value |-> Len(test_sessions) + 1]
    /\ UNCHANGED <<ai_interactions, code_changes, development_milestones,
                   build_results, developer_feedback>>
    /\ UNCHANGED <<in_flight, connections, monitor_vars>>

\* Mutant of end_session: the status is set without the end time.
end_session_StatusOnly(now) ==
    /\ IF current_session_id = None
       THEN UNCHANGED test_sessions
       ELSE LET id == Value(current_session_id) IN
            IF SessionExists(id)
            THEN test_sessions' = [test_sessions EXCEPT ![id].status = "completed"]
            ELSE UNCHANGED test_sessions
    /\ current_session_id' = None
    /\ result' = [kind |-> "None"]
    /\ UNCHANGED <<ai_interactions, code_changes, development_milestones,
                   build_results, developer_feedback>>
    /\ UNCHANGED <<in_flight, connections, monitor_vars>>

end_session(now) ==
    /\ IF current_session_id = None
       THEN UNCHANGED test_sessions
       ELSE LET id == Value(current_session_id) IN
            IF SessionExists(id)
            THEN test_sessions' = [test_sessions EXCEPT
                     ![id].end_time = Some(now), ![id].status = "completed"]
            ELSE UNCHANGED test_sessions
    /\ current_session_id' = None
    /\ result' = [kind |-> "None"]
    /\ UNCHANGED <<ai_interactions, code_changes, development_milestones,
                   build_results, developer_feedback>>
    /\ UNCHANGED <<in_flight, connections, monitor_vars>>

\* int(x): truncation toward zero of a whole number of minutes is the identity.
log_milestone(milestone_name, now) ==
    /\ BagCardinality(development_milestones) < MaxMilestones
    /\ IF current_session_id = None
       THEN UNCHANGED development_milestones
       ELSE LET id == Value(current_session_id) IN
            development_milestones' = Insert(development_milestones,
                [session_id |-> id, milestone_name |-> milestone_name,
                 timestamp |-> now,
                 time_elapsed_minutes |-> now - test_sessions[id].start_time])
    /\ result' = [kind |-> "None"]
    /\ UNCHANGED <<test_sessions, ai_interactions, code_changes, build_results,
                   developer_feedback, current_session_id>>
    /\ UNCHANGED <<in_flight, connections, monitor_vars>>

NextSequence(session_id) ==
    LET rows == RowsOf(ai_interactions, session_id) IN
    IF rows = {} THEN 1
    ELSE (CHOOSE s \in { row.interaction_sequence : row \in rows } :
             \A row \in rows : row.interaction_sequence <= s) + 1

log_ai_interaction(quality_rating, was_helpful, tokens_used, cost_estimate, now) ==
    /\ BagCardinality(ai_interactions) < MaxInteractions
    /\ IF current_session_id = None
       THEN UNCHANGED ai_interactions
       ELSE LET id == Value(current_session_id) IN
            ai_interactions' = Insert(ai_interactions,
                [session_id |-> id, interaction_sequence |-> NextSequence(id),
                 timestamp |-> now, quality_rating |-> quality_rating,
                 was_helpful |-> was_helpful, tokens_used |-> tokens_used,
                 cost_estimate |-> cost_estimate])
    /\ result' = [kind |-> "None"]
    /\ UNCHANGED <<test_sessions, code_changes, development_milestones,
                   build_results, developer_feedback, current_session_id>>
    /\ UNCHANGED <<in_flight, connections, monitor_vars>>

\* Mutant of log_code_change: without the test of the current session the
\* row is written with the session id 0 of no session.
log_code_change_Unguarded(file_path, change_type, lines_added, now) ==
    /\ BagCardinality(code_changes) < MaxChanges
    /\ code_changes' = Insert(code_changes,
          [session_id |-> IF current_session_id = None THEN 0
                          ELSE Value(current_session_id),
           file_path |-> file_path,
           change_type |-> change_type, timestamp |-> now,
           lines_added |-> lines_added, lines_deleted |-> Some(0),
           lines_modified |-> Some(0), ai_generated |-> FALSE])
    /\ result' = [kind |-> "None"]
    /\ UNCHANGED <<test_sessions, ai_interactions, development_milestones,
                   build_results, developer_feedback, current_session_id>>
    /\ UNCHANGED <<in_flight, connections, monitor_vars>>

log_code_change(file_path, change_type, lines_added, now) ==
    /\ BagCardinality(code_changes) < MaxChanges
    /\ IF current_session_id = None
       THEN UNCHANGED code_changes
       ELSE code_changes' = Insert(code_changes,
                [session_id |-> Value(current_session_id), file_path |-> file_path,
                 change_type |-> change_type, timestamp |-> now,
                 lines_added |-> lines_added, lines_deleted |-> Some(0),
                 lines_modified |-> Some(0), ai_generated |-> FALSE])
    /\ result' = [kind |-> "None"]
    /\ UNCHANGED <<test_sessions, ai_interactions, development_milestones,
                   build_results, developer_feedback, current_session_id>>
    /\ UNCHANGED <<in_flight, connections, monitor_vars>>

log_developer_feedback(ease_of_use_rating, productivity_rating, overall_satisfaction, would_recommend, now) ==
    /\ BagCardinality(developer_feedback) < MaxFeedback
    /\ IF current_session_id = None
       THEN UNCHANGED developer_feedback
       ELSE developer_feedback' = Insert(developer_feedback,
                [session_id |-> Value(current_session_id), timestamp |-> now,
                 ease_of_use_rating |-> ease_of_use_rating,
                 productivity_rating |-> productivity_rating,
                 overall_satisfaction |-> overall_satisfaction,
                 would_recommend |-> would_recommend])
    /\ result' = [kind |-> "None"]
    /\ UNCHANGED <<test_sessions, ai_interactions, code_changes,
                   development_milestones, build_results, current_session_id>>
    /\ UNCHANGED <<in_flight, connections, monitor_vars>>

\* ------------------------------------------------- further logger instances
\* EvaluationSessionManager.log_ai_interaction (session_manager.py:180-204)
\* makes a logger of its own for every call and sets its session id, so a
\* session can have several writers.  log_ai_interaction is two statements
\* on the store, with no transaction around them: the query of the highest
\* sequence number (logger.py:111-116) ...
log_ai_interaction_query(logger, session_id) ==
    /\ in_flight[logger] = None
    /\ SessionExists(session_id)
    /\ in_flight' = [in_flight EXCEPT ![logger] =
           Some([session_id |-> session_id, next_seq |-> NextSequence(session_id)])]
    /\ UNCHANGED <<store_vars, result, connections, monitor_vars>>

\* ... and the insert of the row with the number computed from it
\* (logger.py:118-134).
log_ai_interaction_insert(logger, quality_rating, was_helpful, tokens_used, cost_estimate, now) ==
    /\ in_flight[logger] # None
    /\ BagCardinality(ai_interactions) < MaxInteractions
    /\ LET call == Value(in_flight[logger]) IN
       ai_interactions' = Insert(ai_interactions,
           [session_id |-> call.session_id, interaction_sequence |-> call.next_seq,
            timestamp |-> now, quality_rating |-> quality_rating,
            was_helpful |-> was_helpful, tokens_used |-> tokens_used,
            cost_estimate |-> cost_estimate])
    /\ in_flight' = [in_flight EXCEPT ![logger] = None]
    /\ result' = [kind |-> "None"]
    /\ UNCHANGED <<test_sessions, code_changes, development_milestones,
                   build_results, developer_feedback, current_session_id>>
    /\ UNCHANGED <<connections, monitor_vars>>

\* ---------------------------------------------------------------- builds
\* A row of build_results has exactly the columns of the BuildResult table;
\* no code of the repository writes one, a build collaborator appends it.
BuildResult(session_id, build_type, success, now) ==
    [session_id |-> session_id, timestamp |-> now,
     build_type |-> build_type, success |-> success]

add_build_result(session_id, build_type, success, now) ==
    /\ BagCardinality(build_results) < MaxBuilds
    /\ SessionExists(session_id)
    /\ build_results' = Insert(build_results,
          BuildResult(session_id, build_type, success, now))
    /\ result' = [kind |-> "None"]
    /\ UNCHANGED <<test_sessions, ai_interactions, code_changes,
                   development_milestones, developer_feedback, current_session_id>>
    /\ UNCHANGED <<in_flight, connections, monitor_vars>>

\* ---------------------------------------------------------------- metrics
Exception == [kind |-> "Exception"]

Raised(r) == r.kind = "Exception"

\* Attribute access on a mapped row: a name that is not a column raises.
hasattr(row, name) == name \in DOMAIN row

_calculate_timing_metrics(session, now) ==
    LET end_time == IF session.end_time = None THEN now ELSE Value(session.end_time)
        duration == end_time - session.start_time
    IN  [kind |-> "dict", duration_minutes |-> duration,
         duration_hours |-> Frac(duration, 60)]

\* Mutant of _calculate_code_metrics: the file paths are counted without
\* the set(), one per change.
_calculate_code_metrics_AllPaths(session_id) ==
    LET changes == RowsOf(code_changes, session_id)
        Count(type) ==
            CountRows(code_changes, { c \in changes : c.change_type = type })
        lines_added(c) == OrElse(c.lines_added, 0)
        lines_deleted(c) == OrElse(c.lines_deleted, 0)
        lines_modified(c) == OrElse(c.lines_modified, 0)
    IN  [kind |-> "dict",
         total_changes |-> CountRows(code_changes, changes),
         files_created |-> Count("create"),
         files_modified |-> Count("modify"),
         files_deleted |-> Count("delete"),
         lines_added |-> SumRows(code_changes, changes, lines_added),
         lines_deleted |-> SumRows(code_changes, changes, lines_deleted),
         lines_modified |-> SumRows(code_changes, changes, lines_modified),
         unique_files |-> CountRows(code_changes, changes),
         ai_generated_changes |->
            CountRows(code_changes, { c \in changes : c.ai_generated })]

_calculate_code_metrics(session_id) ==
    LET changes == RowsOf(code_changes, session_id)
        Count(type) ==
            CountRows(code_changes, { c \in changes : c.change_type = type })
        lines_added(c) == OrElse(c.lines_added, 0)
        lines_deleted(c) == OrElse(c.lines_deleted, 0)
        lines_modified(c) == OrElse(c.lines_modified, 0)
    IN  [kind |-> "dict",
         total_changes |-> CountRows(code_changes, changes),
         files_created |-> Count("create"),
         files_modified |-> Count("modify"),
         files_deleted |-> Count("delete"),
         lines_added |-> SumRows(code_changes, changes, lines_added),
         lines_deleted |-> SumRows(code_changes, changes, lines_deleted),
         lines_modified |-> SumRows(code_changes, changes, lines_modified),
         unique_files |-> Cardinality({ c.file_path : c \in changes }),
         ai_generated_changes |->
            CountRows(code_changes, { c \in changes : c.ai_generated })]

\* Mutant of InteractionMetrics: the mean rating taken over all the
\* interactions, one without a rating counting as 0.
InteractionMetrics_UnratedAsZero(session_id, now) ==
    LET interactions == RowsOf(ai_interactions, session_id)
        n == CountRows(ai_interactions, interactions)
        duration_hours ==
            _calculate_timing_metrics(test_sessions[session_id], now).duration_hours
        helpful_count == CountRows(ai_interactions,
            { i \in interactions : i.was_helpful = Some(TRUE) })
        rating(i) == OrElse(i.quality_rating, 0)
        tokens(i) == OrElse(i.tokens_used, 0)
        cost(i) == OrElse(i.cost_estimate, 0)
    IN  [kind |-> "dict",
         total_interactions |-> n,
         interactions_per_hour |->
            IF duration_hours[1] > 0
            THEN Frac(n * duration_hours[2], duration_hours[1]) ELSE Zero,
         avg_quality_rating |-> Frac(SumRows(ai_interactions, interactions, rating), n),
         helpful_percentage |-> Frac(helpful_count * 100, n),
         total_tokens |-> SumRows(ai_interactions, interactions, tokens),
         total_cost |-> SumRows(ai_interactions, interactions, cost)]

\* The metrics of a session that has interactions (lines 241-258).
InteractionMetrics(session_id, now) ==
    LET interactions == RowsOf(ai_interactions, session_id)
        n == CountRows(ai_interactions, interactions)
        duration_hours ==
            _calculate_timing_metrics(test_sessions[session_id], now).duration_hours
        \* "if i.quality_rating": a rating that is None (or 0) is left out
        quality_ratings == { i \in interactions :
            i.quality_rating # None /\ i.quality_rating # Some(0) }
        helpful_count == CountRows(ai_interactions,
            { i \in interactions : i.was_helpful = Some(TRUE) })
        rating(i) == Value(i.quality_rating)
        tokens(i) == OrElse(i.tokens_used, 0)
        cost(i) == OrElse(i.cost_estimate, 0)
    IN  [kind |-> "dict",
         total_interactions |-> n,
         interactions_per_hour |->
            IF duration_hours[1] > 0
            THEN Frac(n * duration_hours[2], duration_hours[1]) ELSE Zero,
         avg_quality_rating |->
            IF quality_ratings # {}
            THEN Frac(SumRows(ai_interactions, quality_ratings, rating),
                      CountRows(ai_interactions, quality_ratings))
            ELSE Zero,
         helpful_percentage |-> Frac(helpful_count * 100, n),
         total_tokens |-> SumRows(ai_interactions, interactions, tokens),
         total_cost |-> SumRows(ai_interactions, interactions, cost)]

\* Mutant of _calculate_ai_metrics: without the early return for a session
\* that has no interactions, the division by their number raises.
_calculate_ai_metrics_Unguarded(session_id, now) ==
    IF RowsOf(ai_interactions, session_id) = {}
    THEN Exception
    ELSE InteractionMetrics(session_id, now)

_calculate_ai_metrics(session_id, now) ==
    IF RowsOf(ai_interactions, session_id) = {}
    THEN [kind |-> "dict", total_interactions |-> 0,
          interactions_per_hour |-> Zero, avg_quality_rating |-> Zero,
          helpful_percentage |-> Zero, total_tokens |-> 0, total_cost |-> 0]
    ELSE InteractionMetrics(session_id, now)

\* -------------------------------------------------------- phase segmenter
Put(dict, key, value) ==
    [k \in DOMAIN dict \cup {key} |-> IF k = key THEN value ELSE dict[k]]

\* Mutants of PhaseStep: a duration taken with the operands swapped, a
\* completion that needs no open start, and a start that never supersedes.
PhaseStep_Swapped(state, milestone) ==
    IF startswith(milestone.milestone_name, phase_start_)
    THEN [state EXCEPT !.phase_starts =
             Put(state.phase_starts, replace(milestone.milestone_name, phase_start_),
                 milestone.timestamp)]
    ELSE IF startswith(milestone.milestone_name, phase_complete_)
    THEN LET phase_name == replace(milestone.milestone_name, phase_complete_) IN
         IF phase_name \in DOMAIN state.phase_starts
         THEN [state EXCEPT !.phase_durations =
                  Put(state.phase_durations, phase_name,
                      state.phase_starts[phase_name] - milestone.timestamp)]
         ELSE state
    ELSE state

PhaseStep_NoOpenStart(state, milestone) ==
    IF startswith(milestone.milestone_name, phase_start_)
    THEN [state EXCEPT !.phase_starts =
             Put(state.phase_starts, replace(milestone.milestone_name, phase_start_),
                 milestone.timestamp)]
    ELSE IF startswith(milestone.milestone_name, phase_complete_)
    THEN LET phase_name == replace(milestone.milestone_name, phase_complete_) IN
         [state EXCEPT !.phase_durations =
             Put(state.phase_durations, phase_name,
                 IF phase_name \in DOMAIN state.phase_starts
                 THEN milestone.timestamp - state.phase_starts[phase_name]
                 ELSE 0)]
    ELSE state

PhaseStep_FirstStart(state, milestone) ==
    IF startswith(milestone.milestone_name, phase_start_)
    THEN LET phase_name == replace(milestone.milestone_name, phase_start_) IN
         IF phase_name \in DOMAIN state.phase_starts THEN state
         ELSE [state EXCEPT !.phase_starts =
                  Put(state.phase_starts, phase_name, milestone.timestamp)]
    ELSE IF startswith(milestone.milestone_name, phase_complete_)
    THEN LET phase_name == replace(milestone.milestone_name, phase_complete_) IN
         IF phase_name \in DOMAIN state.phase_starts
         THEN [state EXCEPT !.phase_durations =
                  Put(state.phase_durations, phase_name,
                      milestone.timestamp - state.phase_starts[phase_name])]
         ELSE state
    ELSE state

\* One iteration of the loop over the milestones (lines 271-279).
PhaseStep(state, milestone) ==
    IF startswith(milestone.milestone_name, phase_start_)
    THEN [state EXCEPT !.phase_starts =
             Put(state.phase_starts, replace(milestone.milestone_name, phase_start_),
                 milestone.timestamp)]
    ELSE IF startswith(milestone.milestone_name, phase_complete_)
    THEN LET phase_name == replace(milestone.milestone_name, phase_complete_) IN
         IF phase_name \in DOMAIN state.phase_starts
         THEN [state EXCEPT !.phase_durations =
                  Put(state.phase_durations, phase_name,
                      milestone.timestamp - state.phase_starts[phase_name])]
         ELSE state
    ELSE state

\* The loop after its first n iterations over the query result milestones.
RECURSIVE PhaseScan(_, _)
PhaseScan(milestones, n) ==
    IF n = 0 THEN [phase_starts |-> <<>>, phase_durations |-> <<>>]
    ELSE PhaseStep(PhaseScan(milestones, n - 1), milestones[n])

\* The first milestone named exactly 'phase_complete_<phase_name>' (lines 284-288).
FirstComplete(milestones, phase_name) ==
    LET hits == { i \in DOMAIN milestones :
            milestones[i].milestone_name = <<phase_complete_>> \o phase_name }
    IN  IF hits = {} THEN None
        ELSE Some(milestones[CHOOSE i \in hits : \A j \in hits : i <= j].timestamp)

PhaseAIUsage(session_id, milestones, phase_starts) ==
    LET ended == { p \in DOMAIN phase_starts : FirstComplete(milestones, p) # None }
    IN  [p \in ended |->
            CountRows(ai_interactions, { i \in RowsOf(ai_interactions, session_id) :
                /\ i.timestamp >= phase_starts[p]
                /\ i.timestamp <= Value(FirstComplete(milestones, p)) })]

_calculate_phase_metrics(session_id, milestones) ==
    LET scan == PhaseScan(milestones, Len(milestones))
    IN  [kind |-> "dict",
         total_phases |-> Cardinality(DOMAIN scan.phase_durations),
         phase_durations |-> scan.phase_durations,
         phase_ai_usage |-> PhaseAIUsage(session_id, milestones, scan.phase_starts)]

\* ---------------------------------------------------------- other metrics
\* Mutant of _calculate_productivity_metrics: without the "if ... > 0"
\* guards a zero denominator raises ZeroDivisionError.
_calculate_productivity_metrics_Unguarded(timing, code, ai) ==
    LET duration_minutes == timing.duration_minutes
        duration_hours == timing.duration_hours
        total_actions == code.total_changes + ai.total_interactions
    IN  IF duration_minutes <= 0 \/ total_actions = 0 THEN Exception
        ELSE [kind |-> "dict",
              lines_per_minute |-> Frac(code.lines_added, duration_minutes),
              files_per_hour |->
                 Frac(code.unique_files * duration_hours[2], duration_hours[1]),
              commits_per_hour |-> Zero,
              ai_assistance_ratio |-> Frac(ai.total_interactions, total_actions)]

_calculate_productivity_metrics(timing, code, ai) ==
    LET duration_minutes == timing.duration_minutes
        duration_hours == timing.duration_hours
        total_actions == code.total_changes + ai.total_interactions
    IN  [kind |-> "dict",
         lines_per_minute |->
            IF duration_minutes > 0 THEN Frac(code.lines_added, duration_minutes) ELSE Zero,
         files_per_hour |->
            IF duration_hours[1] > 0
            THEN Frac(code.unique_files * duration_hours[2], duration_hours[1]) ELSE Zero,
         commits_per_hour |-> Zero,
         ai_assistance_ratio |->
            IF total_actions > 0 THEN Frac(ai.total_interactions, total_actions) ELSE Zero]

_calculate_quality_metrics(session_id) ==
    LET builds == RowsOf(build_results, session_id)
        successful_builds == CountRows(build_results, { b \in builds : b.success })
        build_success_rate ==
            Frac(successful_builds * 100, CountRows(build_results, builds))
        test_builds == { b \in builds : b.build_type = "test" }
        passed(b) == OrElse(b.tests_passed, 0)
        tests(b) == OrElse(b.tests_passed, 0) + OrElse(b.tests_failed, 0)
        passed_tests == SumRows(build_results, test_builds, passed)
        total_tests == SumRows(build_results, test_builds, tests)
        test_pass_rate ==
            IF test_builds # {} /\ total_tests > 0
            THEN Frac(passed_tests * 100, total_tests) ELSE Zero
    IN  IF builds = {}
        THEN [kind |-> "dict", build_success_rate |-> Zero,
              test_pass_rate |-> Zero, code_quality_score |-> Zero]
        ELSE IF \E b \in test_builds :
                   ~ hasattr(b, "tests_passed") \/ ~ hasattr(b, "tests_failed")
        THEN Exception
        ELSE [kind |-> "dict", build_success_rate |-> build_success_rate,
              test_pass_rate |-> test_pass_rate,
              code_quality_score |-> FracHalf(FracAdd(build_success_rate, test_pass_rate))]

\* The possible results of ".first()" on the session's feedback rows.
FeedbackFirst(session_id) ==
    LET rows == RowsOf(developer_feedback, session_id)
    IN  IF rows = {} THEN {None} ELSE { Some(row) : row \in rows }

\* Mutant of _calculate_feedback_metrics: the defaults of a session without
\* feedback are 0 and False.
_calculate_feedback_metrics_Zeroed(feedback) ==
    IF feedback = None
    THEN [kind |-> "dict", satisfaction_rating |-> Some(0),
          ease_of_use_rating |-> Some(0), productivity_rating |-> Some(0),
          would_recommend |-> Some(FALSE)]
    ELSE LET row == Value(feedback) IN
         [kind |-> "dict", satisfaction_rating |-> row.overall_satisfaction,
          ease_of_use_rating |-> row.ease_of_use_rating,
          productivity_rating |-> row.productivity_rating,
          would_recommend |-> row.would_recommend]

\* feedback is the row found by the query, or None; an absent key of the
\* returned dict reads as None through dict.get.
_calculate_feedback_metrics(feedback) ==
    IF feedback = None
    THEN [kind |-> "dict", satisfaction_rating |-> None, ease_of_use_rating |-> None,
          productivity_rating |-> None, would_recommend |-> None]
    ELSE LET row == Value(feedback) IN
         [kind |-> "dict", satisfaction_rating |-> row.overall_satisfaction,
          ease_of_use_rating |-> row.ease_of_use_rating,
          productivity_rating |-> row.productivity_rating,
          would_recommend |-> row.would_recommend]

\* The value returned by calculate_session_metrics (lines 109-195);
\* milestones is the result of the ordered milestone query, feedback that
\* of the feedback query, now the reading of the clock.
SessionMetrics(session_id, now, milestones, feedback) ==
    IF ~ SessionExists(session_id) THEN [kind |-> "None"]
    ELSE
    LET session == test_sessions[session_id]
        timing_metrics == _calculate_timing_metrics(session, now)
        code_metrics == _calculate_code_metrics(session_id)
        ai_metrics == _calculate_ai_metrics(session_id, now)
        phase_metrics == _calculate_phase_metrics(session_id, milestones)
        productivity_metrics ==
            _calculate_productivity_metrics(timing_metrics, code_metrics, ai_metrics)
        quality_metrics == _calculate_quality_metrics(session_id)
        feedback_metrics == _calculate_feedback_metrics(feedback)
    IN  IF \/ Raised(timing_metrics) \/ Raised(code_metrics) \/ Raised(ai_metrics)
           \/ Raised(phase_metrics) \/ Raised(productivity_metrics)
           \/ Raised(quality_metrics) \/ Raised(feedback_metrics)
        THEN [kind |-> "None"]
        ELSE [kind |-> "SessionMetrics",
              session_id |-> session_id,
              tool_name |-> session.tool_name,
              test_case_type |-> session.test_case_type,
              total_duration_minutes |-> timing_metrics.duration_minutes,
              start_time |-> session.start_time,
              end_time |-> IF session.end_time = None THEN now
                           ELSE Value(session.end_time),
              total_code_changes |-> code_metrics.total_changes,
              files_created |-> code_metrics.files_created,
              files_modified |-> code_metrics.files_modified,
              files_deleted |-> code_metrics.files_deleted,
              lines_added |-> code_metrics.lines_added,
              lines_deleted |-> code_metrics.lines_deleted,
              lines_modified |-> code_metrics.lines_modified,
              total_ai_interactions |-> ai_metrics.total_interactions,
              ai_interactions_per_hour |-> ai_metrics.interactions_per_hour,
              average_quality_rating |-> ai_metrics.avg_quality_rating,
              helpful_interactions_percentage |-> ai_metrics.helpful_percentage,
              total_tokens_used |-> ai_metrics.total_tokens,
              total_cost_estimate |-> ai_metrics.total_cost,
              total_phases |-> phase_metrics.total_phases,
              phase_durations |-> phase_metrics.phase_durations,
              phase_ai_usage |-> phase_metrics.phase_ai_usage,
              lines_per_minute |-> productivity_metrics.lines_per_minute,
              files_per_hour |-> productivity_metrics.files_per_hour,
              commits_per_hour |-> productivity_metrics.commits_per_hour,
              ai_assistance_ratio |-> productivity_metrics.ai_assistance_ratio,
              build_success_rate |-> quality_metrics.build_success_rate,
              test_pass_rate |-> quality_metrics.test_pass_rate,
              code_quality_score |-> quality_metrics.code_quality_score,
              satisfaction_rating |-> feedback_metrics.satisfaction_rating,
              ease_of_use_rating |-> feedback_metrics.ease_of_use_rating,
              productivity_rating |-> feedback_metrics.productivity_rating,
              would_recommend |-> feedback_metrics.would_recommend]

\* ------------------------------------------------------------ connections
\* Mutant of with_: the session is closed only when the block returns.
with__ReturnOnly(block, raises) ==
    IF raises THEN <<"open">> \o block ELSE <<"open">> \o block \o <<"close">>

\* "with next(get_db()) as db:" (database.py:74-80): a data-store session
\* is opened, the block runs, and the session is closed however the block
\* is left, by a return or by an exception.
with_(block, raises) == <<"open">> \o block \o <<"close">>

\* The sessions the events leave open.
StillOpen(events) ==
    Cardinality({ i \in DOMAIN events : events[i] = "open" })
       - Cardinality({ i \in DOMAIN events : events[i] = "close" })

\* The connection events of calculate_session_metrics (lines 111-195) that
\* returns the record: None for an existing session is the fault path.
SessionConnections(session_id, record) ==
    with_(<<>>, SessionExists(session_id) /\ record.kind = "None")

\* The events of the calls of calculate_session_metrics made one after
\* the other for the sessions.
RECURSIVE NestedConnections(_, _)
NestedConnections(ids, metrics) ==
    IF ids = {} THEN <<>>
    ELSE LET id == CHOOSE i \in ids : \A j \in ids : i <= j
         IN  SessionConnections(id, metrics[id])
                \o NestedConnections(ids \ {id}, metrics)

MilestoneQuery(session_id) ==
    OrderByTimestamp(development_milestones, RowsOf(development_milestones, session_id))

calculate_session_metrics(session_id, now) ==
    /\ \E milestones \in MilestoneQuery(session_id) :
       \E feedback \in FeedbackFirst(session_id) :
       \E record \in { SessionMetrics(session_id, now, milestones, feedback) } :
           /\ result' = record
           /\ connections' =
                 connections + StillOpen(SessionConnections(session_id, record))
    /\ UNCHANGED <<test_sessions, ai_interactions, code_changes, development_milestones,
                   build_results, developer_feedback, current_session_id>>
    /\ UNCHANGED <<in_flight, monitor_vars>>

\* ------------------------------------------------------------ comparator
FracSub(x, y) == Frac(x[1] * y[2] - y[1] * x[2], x[2] * y[2])

\* x / y for y > 0.
FracDiv(x, y) == Frac(x[1] * y[2], x[2] * y[1])

FracLess(x, y) == x[1] * y[2] < y[1] * x[2]

Percent(x) == Frac(x[1] * 100, x[2])

RECURSIVE FracSum(_, _)
FracSum(S, f) ==
    IF S = {} THEN Zero
    ELSE LET x == CHOOSE y \in S : TRUE IN FracAdd(f[x], FracSum(S \ {x}, f))

\* statistics.mean of the values f[id], one for each id of a non-empty set.
mean(ids, f) == FracDiv(FracSum(ids, f), <<Cardinality(ids), 1>>)

\* The completed sessions of the tool, of the scenario type when one is
\* given ("if test_case_type:"); no tool filter when tool_name is None.
CompletedSessions(tool_name, test_case_type) ==
    { id \in 1 .. Len(test_sessions) :
        /\ tool_name # None => test_sessions[id].tool_name = Value(tool_name)
        /\ test_case_type # None =>
              test_sessions[id].test_case_type = Value(test_case_type)
        /\ test_sessions[id].status = "completed" }

\* What the milestone query and the feedback query of
\* calculate_session_metrics can return for the session.
QueryResults(session_id) ==
    { [milestones |-> milestones, feedback |-> feedback] :
        milestones \in MilestoneQuery(session_id),
        feedback \in FeedbackFirst(session_id) }

\* One pair of query results for each session of the set.
QueryChoices(ids) ==
    { queries \in [ids -> UNION { QueryResults(id) : id \in ids }] :
        \A id \in ids : queries[id] \in QueryResults(id) }

\* "[self.calculate_session_metrics(s.id) for s in sessions]"
AllMetrics(ids, now, queries) ==
    [id \in ids |->
        SessionMetrics(id, now, queries[id].milestones, queries[id].feedback)]

\* "[m for m in metrics if m]": the sessions that have a metrics record.
WithMetrics(ids, metrics) == { id \in ids : metrics[id].kind = "SessionMetrics" }

\* "if m.satisfaction_rating": a rating that is None (or 0) is left out.
WithSatisfaction(ids, metrics) ==
    { id \in ids : /\ metrics[id].satisfaction_rating # None
                   /\ metrics[id].satisfaction_rating # Some(0) }

DurationsOf(ids, metrics) == [id \in ids |-> <<metrics[id].total_duration_minutes, 1>>]

ProductivitiesOf(ids, metrics) == [id \in ids |-> metrics[id].lines_per_minute]

QualitiesOf(ids, metrics) == [id \in ids |-> metrics[id].code_quality_score]

SatisfactionsOf(ids, metrics) ==
    [id \in WithSatisfaction(ids, metrics) |->
        <<Value(metrics[id].satisfaction_rating), 1>>]

\* Mutants of speed_improvement: the difference of the means not divided
\* by the reference mean, and the difference taken the other way round.
speed_improvement_Absolute(avg_duration_a, avg_duration_b) ==
    IF FracLess(Zero, avg_duration_b)
    THEN Percent(FracSub(avg_duration_b, avg_duration_a))
    ELSE Zero

speed_improvement_Swapped(avg_duration_a, avg_duration_b) ==
    IF FracLess(Zero, avg_duration_b)
    THEN Percent(FracDiv(FracSub(avg_duration_a, avg_duration_b), avg_duration_b))
    ELSE Zero

\* Lines 414-416: the improvement of tool A over the reference mean of
\* tool B, in percent; 0 unless the reference mean is positive.
speed_improvement(avg_duration_a, avg_duration_b) ==
    IF FracLess(Zero, avg_duration_b)
    THEN Percent(FracDiv(FracSub(avg_duration_b, avg_duration_a), avg_duration_b))
    ELSE Zero

improvement(avg_a, avg_b) ==
    IF FracLess(Zero, avg_b)
    THEN Percent(FracDiv(FracSub(avg_a, avg_b), avg_b))
    ELSE Zero

\* Mutants of preference_winner: a bound that is reached by tool A alone,
\* and no deadband at all.
preference_winner_Inclusive(tool_a, tool_b, satisfaction_difference) ==
    IF ~ FracLess(satisfaction_difference, <<1, 2>>) THEN tool_a
    ELSE IF FracLess(satisfaction_difference, <<0 - 1, 2>>) THEN tool_b
    ELSE "tie"

preference_winner_NoDeadband(tool_a, tool_b, satisfaction_difference) ==
    IF FracLess(Zero, satisfaction_difference) THEN tool_a
    ELSE IF FracLess(satisfaction_difference, Zero) THEN tool_b
    ELSE "tie"

\* Lines 420-424: the deadband of half a point.
preference_winner(tool_a, tool_b, satisfaction_difference) ==
    IF FracLess(<<1, 2>>, satisfaction_difference) THEN tool_a
    ELSE IF FracLess(satisfaction_difference, <<0 - 1, 2>>) THEN tool_b
    ELSE "tie"

\* The value returned by calculate_tool_comparison (lines 371-445), given
\* the results of its calls of calculate_session_metrics.
ToolComparison(tool_a, tool_b, test_case_type, metrics) ==
    LET sessions_a == CompletedSessions(Some(tool_a), test_case_type)
        sessions_b == CompletedSessions(Some(tool_b), test_case_type)
        metrics_a == WithMetrics(sessions_a, metrics)
        metrics_b == WithMetrics(sessions_b, metrics)
        rated_a == WithSatisfaction(metrics_a, metrics)
        rated_b == WithSatisfaction(metrics_b, metrics)
        avg_satisfaction_a == mean(rated_a, SatisfactionsOf(metrics_a, metrics))
        avg_satisfaction_b == mean(rated_b, SatisfactionsOf(metrics_b, metrics))
        satisfaction_difference == FracSub(avg_satisfaction_a, avg_satisfaction_b)
    IN  IF sessions_a = {} \/ sessions_b = {} THEN [kind |-> "None"]
        ELSE IF metrics_a = {} \/ metrics_b = {} THEN [kind |-> "None"]
        \* statistics.mean of an empty list raises StatisticsError, which
        \* the except clause turns into None
        ELSE IF rated_a = {} \/ rated_b = {} THEN [kind |-> "None"]
        ELSE [kind |-> "ComparisonMetrics",
              tool_a_name |-> tool_a,
              tool_b_name |-> tool_b,
              test_case_type |-> IF test_case_type = None THEN "all"
                                 ELSE Value(test_case_type),
              speed_improvement_percentage |->
                 speed_improvement(mean(metrics_a, DurationsOf(metrics_a, metrics)),
                                   mean(metrics_b, DurationsOf(metrics_b, metrics))),
              productivity_improvement_percentage |->
                 improvement(mean(metrics_a, ProductivitiesOf(metrics_a, metrics)),
                             mean(metrics_b, ProductivitiesOf(metrics_b, metrics))),
              code_quality_improvement_percentage |->
                 improvement(mean(metrics_a, QualitiesOf(metrics_a, metrics)),
                             mean(metrics_b, QualitiesOf(metrics_b, metrics))),
              ai_interaction_difference |-> 0,
              token_usage_difference |-> 0,
              cost_difference |-> 0,
              satisfaction_difference |-> satisfaction_difference,
              preference_winner |->
                 preference_winner(tool_a, tool_b, satisfaction_difference),
              sample_size_a |-> Cardinality(metrics_a),
              sample_size_b |-> Cardinality(metrics_b),
              confidence_level |-> <<19, 20>>]

\* The connection events of calculate_tool_comparison (lines 373-445) that
\* returns the comparison: the nested calls are made when both cohorts
\* are non-empty, and None with two non-empty lists of records is the
\* fault path.
ComparisonConnections(tool_a, tool_b, test_case_type, metrics, comparison) ==
    LET sessions_a == CompletedSessions(Some(tool_a), test_case_type)
        sessions_b == CompletedSessions(Some(tool_b), test_case_type)
    IN  IF sessions_a = {} \/ sessions_b = {} THEN with_(<<>>, FALSE)
        ELSE with_(NestedConnections(sessions_a, metrics)
                      \o NestedConnections(sessions_b, metrics),
                   /\ WithMetrics(sessions_a, metrics) # {}
                   /\ WithMetrics(sessions_b, metrics) # {}
                   /\ comparison.kind = "None")

calculate_tool_comparison(tool_a, tool_b, test_case_type, now) ==
    /\ LET ids == CompletedSessions(Some(tool_a), test_case_type)
                      \cup CompletedSessions(Some(tool_b), test_case_type)
       IN  \E queries \in QueryChoices(ids) :
           \E metrics \in { AllMetrics(ids, now, queries) } :
           \E comparison \in { ToolComparison(tool_a, tool_b, test_case_type, metrics) } :
              /\ result' = comparison
              /\ connections' =
                    connections + StillOpen(ComparisonConnections(
                        tool_a, tool_b, test_case_type, metrics, comparison))
    /\ UNCHANGED <<test_sessions, ai_interactions, code_changes, development_milestones,
                   build_results, developer_feedback, current_session_id>>
    /\ UNCHANGED <<in_flight, monitor_vars>>

\* ---------------------------------------------------------- statistician
FracMul(x, y) == Frac(x[1] * y[1], x[2] * y[2])

\* The ids of a non-empty set in ascending order of their values f[id].
SortedBy(ids, f) ==
    CHOOSE q \in [1 .. Cardinality(ids) -> ids] :
        /\ \A i, j \in DOMAIN q : i # j => q[i] # q[j]
        /\ \A i, j \in DOMAIN q : i < j => ~ FracLess(f[q[j]], f[q[i]])

\* statistics.median: the middle value, or the mean of the two middle ones.
median(ids, f) ==
    LET n == Cardinality(ids)
        q == SortedBy(ids, f)
    IN  IF n % 2 = 1 THEN f[q[(n + 1) \div 2]]
        ELSE FracDiv(FracAdd(f[q[n \div 2]], f[q[n \div 2 + 1]]), <<2, 1>>)

min(ids, f) == f[SortedBy(ids, f)[1]]

max(ids, f) == f[SortedBy(ids, f)[Cardinality(ids)]]

\* A standard deviation is kept as the number it is the square root of;
\* the root of 0 is 0.
Sqrt(x) == [sqrt |-> x]

\* statistics.stdev of two values or more: the root of the sample variance.
stdev(ids, f) ==
    LET m == mean(ids, f)
        squares == [id \in ids |-> FracMul(FracSub(f[id], m), FracSub(f[id], m))]
    IN  Sqrt(FracDiv(FracSum(ids, squares), <<Cardinality(ids) - 1, 1>>))

\* The value returned by get_session_summary_stats (lines 447-508), given
\* the results of its calls of calculate_session_metrics; the empty dict
\* is the record of kind '{}'.
SummaryStats(tool_name, test_case_type, metrics) ==
    LET sessions == CompletedSessions(tool_name, test_case_type)
        all_metrics == WithMetrics(sessions, metrics)
        durations == DurationsOf(all_metrics, metrics)
        productivities == ProductivitiesOf(all_metrics, metrics)
        qualities == QualitiesOf(all_metrics, metrics)
        rated == WithSatisfaction(all_metrics, metrics)
    IN  IF sessions = {} \/ all_metrics = {}
        THEN [kind |-> "{}"]
        ELSE [kind |-> "SummaryStats",
              total_sessions |-> Cardinality(all_metrics),
              duration |->
                 [mean |-> mean(all_metrics, durations),
                  median |-> median(all_metrics, durations),
                  min |-> min(all_metrics, durations),
                  max |-> max(all_metrics, durations),
                  std_dev |-> IF Cardinality(all_metrics) > 1
                              THEN stdev(all_metrics, durations)
                              ELSE Sqrt(Zero)],
              productivity |->
                 [mean |-> mean(all_metrics, productivities),
                  median |-> median(all_metrics, productivities),
                  min |-> min(all_metrics, productivities),
                  max |-> max(all_metrics, productivities)],
              quality |->
                 [mean |-> mean(all_metrics, qualities),
                  median |-> median(all_metrics, qualities),
                  min |-> min(all_metrics, qualities),
                  max |-> max(all_metrics, qualities)],
              satisfaction |->
                 [mean |-> IF rated # {}
                           THEN mean(rated, SatisfactionsOf(all_metrics, metrics))
                           ELSE Zero,
                  count |-> Cardinality(rated)]]

\* The connection events of get_session_summary_stats (lines 449-508); its
\* statistics are taken of non-empty lists and do not raise.
SummaryConnections(tool_name, test_case_type, metrics) ==
    with_(NestedConnections(CompletedSessions(tool_name, test_case_type), metrics),
          FALSE)

get_session_summary_stats(tool_name, test_case_type, now) ==
    /\ LET ids == CompletedSessions(tool_name, test_case_type)
       IN  \E queries \in QueryChoices(ids) :
           \E metrics \in { AllMetrics(ids, now, queries) } :
              /\ result' = SummaryStats(tool_name, test_case_type, metrics)
              /\ connections' =
                    connections + StillOpen(SummaryConnections(
                        tool_name, test_case_type, metrics))
    /\ UNCHANGED <<test_sessions, ai_interactions, code_changes, development_milestones,
                   build_results, developer_feedback, current_session_id>>
    /\ UNCHANGED <<in_flight, monitor_vars>>

\* ------------------------------------------------------------ timing tracker
\* The fields of the TimingTracker as one value: timing_phases holds every
\* TimingPhase object in the order of its creation, and a reference to a
\* phase is its index there.
Tracker ==
    [timing_phases |-> timing_phases, current_phase |-> current_phase,
     completed_phases |-> completed_phases]

TimingPhase(name, now) ==
    [name |-> name, start_time |-> now, end_time |-> None,
     duration_seconds |-> None, ai_interactions |-> 0, code_changes |-> 0]

\* TimingPhase.complete: a minute of the clock is 60 seconds.
complete_phase(phase, now) ==
    [phase EXCEPT !.end_time = Some(now),
                  !.duration_seconds = Some((now - phase.start_time) * 60)]

\* The rows of the session stamped within the completed phase.
update_phase_stats(phase, session_id) ==
    LET within(table) ==
            CountRows(table,
                { row \in RowsOf(table, session_id) :
                    /\ row.timestamp >= phase.start_time
                    /\ row.timestamp <= Value(phase.end_time) })
    IN  [phase EXCEPT !.ai_interactions = within(ai_interactions),
                      !.code_changes = within(code_changes)]

\* TimingTracker.complete_current_phase on the tracker value: the current
\* phase object is completed in place, appended to completed_phases and
\* no longer current.
TrackerComplete(tracker, session_id, now) ==
    IF tracker.current_phase = None THEN tracker
    ELSE LET phase == Value(tracker.current_phase) IN
         [timing_phases |->
              [tracker.timing_phases EXCEPT ![phase] =
                  update_phase_stats(complete_phase(@, now), session_id)],
          current_phase |-> None,
          completed_phases |-> Append(tracker.completed_phases, phase)]

\* TimingTracker.start_phase on the tracker value: a running current phase
\* is completed at the reading completed_at, the new phase starts at now.
TrackerStart(tracker, session_id, phase_name, completed_at, now) ==
    LET before ==
            IF /\ tracker.current_phase # None
               /\ tracker.timing_phases[Value(tracker.current_phase)].end_time = None
            THEN TrackerComplete(tracker, session_id, completed_at)
            ELSE tracker
    IN  [timing_phases |-> Append(before.timing_phases, TimingPhase(phase_name, now)),
         current_phase |-> Some(Len(before.timing_phases) + 1),
         completed_phases |-> before.completed_phases]

\* TimingTracker.generate_analysis on the tracker value: the current phase
\* is completed for the analysis, and the finally block makes the same
\* object current again.
TrackerAnalysis(tracker, session_id, now) ==
    IF tracker.current_phase = None THEN tracker
    ELSE LET active_phase == tracker.current_phase IN
         [TrackerComplete(tracker, session_id, now) EXCEPT
             !.current_phase = active_phase]

SetTracker(tracker) ==
    /\ timing_phases' = tracker.timing_phases
    /\ current_phase' = tracker.current_phase
    /\ completed_phases' = tracker.completed_phases

\* The phases and completions the model follows.
TrackerRoom(tracker) ==
    /\ Len(tracker.timing_phases) <= MaxPhases
    /\ Len(tracker.completed_phases) <= MaxPhases

tracker_start_phase(session_id, phase_name, completed_at, now) ==
    \E tracker \in { TrackerStart(Tracker, session_id, phase_name, completed_at, now) } :
        /\ TrackerRoom(tracker)
        /\ SetTracker(tracker)
        /\ result' = [kind |-> "TimingPhase", phase |-> Value(tracker.current_phase)]
        /\ UNCHANGED <<store_vars, in_flight, connections, manager>>

tracker_complete_current_phase(session_id, now) ==
    \E tracker \in { TrackerComplete(Tracker, session_id, now) } :
        /\ TrackerRoom(tracker)
        /\ SetTracker(tracker)
        /\ result' = IF current_phase = None THEN [kind |-> "None"]
                     ELSE [kind |-> "TimingPhase", phase |-> Value(current_phase)]
        /\ UNCHANGED <<store_vars, in_flight, connections, manager>>

generate_analysis(session_id, now) ==
    \E tracker \in { TrackerAnalysis(Tracker, session_id, now) } :
        /\ TrackerRoom(tracker)
        /\ SetTracker(tracker)
        /\ result' = [kind |-> "SessionTimingAnalysis", session_id |-> session_id,
                      phases |-> TrackerComplete(Tracker, session_id, now).completed_phases]
        /\ UNCHANGED <<store_vars, in_flight, connections, manager>>

\* ----------------------------------------------------------- session manager
\* log_milestone of a logger made for the call, whose current session is
\* the manager's.
ManagerMilestone(milestone_name, now) ==
    Insert(development_milestones,
        [session_id |-> manager.session_id, milestone_name |-> milestone_name,
         timestamp |-> now,
         time_elapsed_minutes |-> now - test_sessions[manager.session_id].start_time])

\* A new TimingTracker replaces the manager's; without timing tracking the
\* manager keeps the tracker it has, if any.
start_monitoring(enable_timing_tracking) ==
    /\ IF manager.is_active
       THEN UNCHANGED <<monitor_vars>>
       ELSE /\ IF enable_timing_tracking
               THEN SetTracker([timing_phases |-> <<>>, current_phase |-> None,
                                completed_phases |-> <<>>])
               ELSE UNCHANGED <<timing_phases, current_phase, completed_phases>>
            /\ manager' = [manager EXCEPT
                  !.is_active = TRUE,
                  !.timing_tracker = @ \/ enable_timing_tracking]
    /\ result' = [kind |-> "None"]
    /\ UNCHANGED <<store_vars, in_flight, connections>>

stop_monitoring(now) ==
    /\ IF ~manager.is_active
       THEN /\ UNCHANGED <<monitor_vars>>
            /\ result' = [kind |-> "{}"]
       ELSE \E tracker \in { IF manager.timing_tracker
                             THEN TrackerComplete(Tracker, manager.session_id, now)
                             ELSE Tracker } :
            /\ TrackerRoom(tracker)
            /\ SetTracker(tracker)
            /\ manager' = [manager EXCEPT !.is_active = FALSE]
            /\ result' = [kind |-> "summary", session_id |-> manager.session_id,
                          current_phase |-> current_phase,
                          completed_phases |-> Len(completed_phases)]
    /\ UNCHANGED <<store_vars, in_flight, connections>>

start_phase(phase_name, completed_at, now, logged) ==
    /\ IF ~manager.timing_tracker
       THEN UNCHANGED <<timing_phases, current_phase, completed_phases,
                        development_milestones>>
       ELSE \E tracker \in { TrackerStart(Tracker, manager.session_id, phase_name,
                                          completed_at, now) } :
            /\ TrackerRoom(tracker)
            /\ BagCardinality(development_milestones) < MaxMilestones
            /\ SetTracker(tracker)
            /\ development_milestones' =
                  ManagerMilestone(<<phase_start_, phase_name>>, logged)
    /\ result' = [kind |-> "None"]
    /\ UNCHANGED <<test_sessions, ai_interactions, code_changes, build_results,
                   developer_feedback, current_session_id>>
    /\ UNCHANGED <<in_flight, connections, manager>>

complete_current_phase(now, logged) ==
    /\ IF ~manager.timing_tracker \/ current_phase = None
       THEN /\ UNCHANGED <<timing_phases, current_phase, completed_phases,
                           development_milestones>>
            /\ result' = [kind |-> "None"]
       ELSE \E tracker \in { TrackerComplete(Tracker, manager.session_id, now) } :
            /\ TrackerRoom(tracker)
            /\ BagCardinality(development_milestones) < MaxMilestones
            /\ SetTracker(tracker)
            /\ development_milestones' =
                  ManagerMilestone(
                      <<phase_complete_, timing_phases[Value(current_phase)].name>>,
                      logged)
            /\ result' = [kind |-> "str",
                          value |-> timing_phases[Value(current_phase)].name]
    /\ UNCHANGED <<test_sessions, ai_interactions, code_changes, build_results,
                   developer_feedback, current_session_id>>
    /\ UNCHANGED <<in_flight, connections, manager>>

\* ---------------------------------------------------------- specifications
SessionIds == 1 .. Len(test_sessions) + 1

\* The store after one start_session: the logger holds session 1.
InitStarted ==
    /\ test_sessions = << [tool_name |-> "cursor", test_case_type |-> "bug_fix",
                           start_time |-> 0, end_time |-> None,
                           status |-> "in_progress"] >>
    /\ ai_interactions = EmptyBag
    /\ code_changes = EmptyBag
    /\ development_milestones = EmptyBag
    /\ build_results = EmptyBag
    /\ developer_feedback = EmptyBag
    /\ current_session_id = Some(1)
    /\ result = [kind |-> "int", value |-> 1]
    /\ in_flight = [logger \in Loggers |-> None]
    /\ connections = 0
    /\ timing_phases = <<>>
    /\ current_phase = None
    /\ completed_phases = <<>>
    /\ manager = [session_id |-> 1, is_active |-> FALSE, timing_tracker |-> FALSE]

\* Phase segmentation: the logger writes milestones of the running session
\* at arbitrary readings of the wall clock; the engine computes its metrics.
NextPhases ==
    \/ \E name \in MilestoneNames, now \in Times : log_milestone(name, now)
    \/ \E id \in SessionIds, now \in Times : calculate_session_metrics(id, now)

SpecPhases == InitStarted /\ [][NextPhases]_vars

\* Phase segmentation with the AI interactions the phases are charged with.
NextUsage ==
    \/ \E name \in PlainNames, now \in Times : log_milestone(name, now)
    \/ \E now \in Times : log_ai_interaction(None, None, None, None, now)
    \/ \E id \in SessionIds, now \in Times : calculate_session_metrics(id, now)

SpecUsage == InitStarted /\ [][NextUsage]_vars

\* Quality aggregation: sessions are started, a build collaborator appends
\* build results to them, the engine computes their metrics.
BuildTypes == {"compile", "test"}

Next ==
    \/ start_session("cursor", "bug_fix", 0)
    \/ \E id \in SessionIds, type \in BuildTypes, success \in BOOLEAN :
          add_build_result(id, type, success, 0)
    \/ \E id \in SessionIds, now \in Times : calculate_session_metrics(id, now)

Spec == Init /\ [][Next]_vars

\* AI usage aggregation: sessions are run one after the other, interactions
\* are logged with and without ratings, the engine computes the metrics.
Interactions ==
    { [quality_rating |-> None, was_helpful |-> None,
       tokens_used |-> None, cost_estimate |-> None],
      [quality_rating |-> Some(4), was_helpful |-> Some(TRUE),
       tokens_used |-> Some(100), cost_estimate |-> Some(45)],
      [quality_rating |-> Some(1), was_helpful |-> Some(FALSE),
       tokens_used |-> None, cost_estimate |-> None] }

NextAI ==
    \/ current_session_id = None /\ start_session("cursor", "bug_fix", 0)
    \/ end_session(MaxTime)
    \/ \E i \in Interactions :
          log_ai_interaction(i.quality_rating, i.was_helpful, i.tokens_used,
                             i.cost_estimate, 0)
    \/ \E id \in SessionIds, now \in Times : calculate_session_metrics(id, now)

SpecAI == Init /\ [][NextAI]_vars

\* Code volume: sessions are run one after the other, code changes (with
\* and without a line count) are logged, the engine computes the metrics.
Changes ==
    { [file_path |-> "a.py", change_type |-> "create", lines_added |-> Some(2)],
      [file_path |-> "b.py", change_type |-> "modify", lines_added |-> None] }

NextCode ==
    \/ current_session_id = None /\ start_session("cursor", "bug_fix", 0)
    \/ end_session(MaxTime)
    \/ \E c \in Changes :
          log_code_change(c.file_path, c.change_type, c.lines_added, 0)
    \/ \E id \in SessionIds, now \in Times : calculate_session_metrics(id, now)

SpecCode == Init /\ [][NextCode]_vars

\* A session ends in the minute it was started, or MaxTime minutes later.
EndTimes == { 0, MaxTime }

\* Productivity: sessions are run one after the other and end at once or
\* later, with at most one code change and one interaction each; the
\* engine computes the metrics.
NextProductivity ==
    \/ current_session_id = None /\ start_session("cursor", "bug_fix", 0)
    \/ \E now \in EndTimes : end_session(now)
    \/ /\ \A id \in current_session_id : RowsOf(code_changes, id) = {}
       /\ log_code_change("a.py", "create", Some(2), 0)
    \/ /\ \A id \in current_session_id : RowsOf(ai_interactions, id) = {}
       /\ log_ai_interaction(None, None, None, None, 0)
    \/ \E id \in SessionIds, now \in EndTimes : calculate_session_metrics(id, now)

SpecProductivity == Init /\ [][NextProductivity]_vars

\* Developer feedback: sessions are started and ended, feedback is given
\* for the running session, the engine computes the metrics.
Feedbacks ==
    { [ease_of_use_rating |-> Some(3), productivity_rating |-> Some(2),
       overall_satisfaction |-> Some(4), would_recommend |-> Some(FALSE)],
      [ease_of_use_rating |-> Some(5), productivity_rating |-> Some(5),
       overall_satisfaction |-> Some(5), would_recommend |-> Some(TRUE)] }

NextFeedback ==
    \/ start_session("cursor", "bug_fix", 0)
    \/ end_session(MaxTime)
    \/ \E f \in Feedbacks :
          log_developer_feedback(f.ease_of_use_rating, f.productivity_rating,
                                 f.overall_satisfaction, f.would_recommend, 0)
    \/ \E id \in SessionIds, now \in Times : calculate_session_metrics(id, now)

SpecFeedback == Init /\ [][NextFeedback]_vars

\* Tool comparison: sessions of two tools on one scenario type are run
\* one after the other, feedback is given once for the running session,
\* the engine compares the tools.
Tools == { "cursor", "github_copilot" }

TestCaseTypes == { "bug_fix" }

Filters == { None, Some("bug_fix"), Some("refactoring") }

NextCompare ==
    \/ /\ current_session_id = None
       /\ \E tool \in Tools, type \in TestCaseTypes : start_session(tool, type, 0)
    \/ end_session(MaxTime)
    \/ /\ \A id \in current_session_id : RowsOf(developer_feedback, id) = {}
       /\ \E f \in Feedbacks :
             log_developer_feedback(f.ease_of_use_rating, f.productivity_rating,
                                    f.overall_satisfaction, f.would_recommend, 0)
    \/ \E tool_a \in Tools, tool_b \in Tools, type \in Filters :
          calculate_tool_comparison(tool_a, tool_b, type, MaxTime)

SpecCompare == Init /\ [][NextCompare]_vars

\* Comparison on the three axes: sessions of two tools are run one after
\* the other; during a session its feedback is given, a code change is
\* logged and a successful build is recorded, each at most once, and the
\* session ends after its feedback; the engine compares the tools.
ToolFilters == { None } \cup { Some(tool) : tool \in Tools }

NextAxes ==
    \/ /\ current_session_id = None
       /\ \E tool \in Tools : start_session(tool, "bug_fix", 0)
    \/ /\ \A id \in current_session_id : RowsOf(developer_feedback, id) # {}
       /\ \E now \in EndTimes : end_session(now)
    \/ /\ \A id \in current_session_id : RowsOf(developer_feedback, id) = {}
       /\ log_developer_feedback(Some(4), Some(4), Some(4), Some(TRUE), 0)
    \/ /\ \A id \in current_session_id : RowsOf(code_changes, id) = {}
       /\ log_code_change("a.py", "create", Some(2), 0)
    \/ \E id \in current_session_id :
          /\ RowsOf(build_results, id) = {}
          /\ add_build_result(id, "compile", TRUE, 0)
    \/ \E tool_a \in Tools, tool_b \in Tools :
          calculate_tool_comparison(tool_a, tool_b, None, MaxTime)

SpecAxes == Init /\ [][NextAxes]_vars

\* Summary: sessions of two tools are run one after the other, a code
\* change is logged and a successful test run is recorded at most once
\* during a session; the engine summarises all sessions or those of one
\* tool.
NextSummary ==
    \/ /\ current_session_id = None
       /\ \E tool \in Tools : start_session(tool, "bug_fix", 0)
    \/ \E now \in EndTimes : end_session(now)
    \/ /\ \A id \in current_session_id : RowsOf(code_changes, id) = {}
       /\ log_code_change("a.py", "create", Some(2), 0)
    \/ \E id \in current_session_id :
          /\ RowsOf(build_results, id) = {}
          /\ add_build_result(id, "test", TRUE, 0)
    \/ \E tool \in ToolFilters : get_session_summary_stats(tool, None, MaxTime)

SpecSummary == Init /\ [][NextSummary]_vars

\* The latest reading of the clock that is stamped on a session.
Clock ==
    LET stamps == { test_sessions[id].start_time : id \in 1 .. Len(test_sessions) }
                     \cup UNION { test_sessions[id].end_time : id \in 1 .. Len(test_sessions) }
    IN  IF stamps = {} THEN 0 ELSE CHOOSE t \in stamps : \A u \in stamps : u <= t

\* The logger alone: every operation is called with and without a current
\* session, on a clock that does not run backwards; a session gets a
\* milestone, an interaction, a code change and feedback, in this order
\* and each at most once.
NextFrame ==
    \/ start_session("cursor", "bug_fix", Clock)
    \/ \E now \in Times : now >= Clock /\ end_session(now)
    \/ /\ \A id \in current_session_id : RowsOf(development_milestones, id) = {}
       /\ log_milestone(<<phase_start_, "A">>, Clock)
    \/ /\ \A id \in current_session_id :
             /\ RowsOf(development_milestones, id) # {}
             /\ RowsOf(ai_interactions, id) = {}
       /\ log_ai_interaction(None, None, None, None, Clock)
    \/ /\ \A id \in current_session_id :
             /\ RowsOf(ai_interactions, id) # {}
             /\ RowsOf(code_changes, id) = {}
       /\ log_code_change("a.py", "create", Some(2), Clock)
    \/ /\ \A id \in current_session_id :
             /\ RowsOf(code_changes, id) # {}
             /\ RowsOf(developer_feedback, id) = {}
       /\ log_developer_feedback(Some(4), Some(4), Some(4), Some(TRUE), Clock)

SpecFrame == Init /\ [][NextFrame]_vars

\* Sequence numbers: the logger of the session and the loggers the
\* session manager makes log interactions of session 1; the statements of
\* different loggers interleave.
NextSequences ==
    \/ \E now \in Times : log_ai_interaction(None, None, None, None, now)
    \/ \E logger \in Loggers : log_ai_interaction_query(logger, 1)
    \/ \E logger \in Loggers, now \in Times :
          log_ai_interaction_insert(logger, None, None, None, None, now)

SpecSequence == InitStarted /\ [][NextSequences]_vars

\* Connections: sessions of two tools are run one after the other, with
\* or without feedback and a test run; the engine computes the metrics of
\* a session, compares the tools and summarises the sessions.
NextConnections ==
    \/ /\ current_session_id = None
       /\ \E tool \in Tools : start_session(tool, "bug_fix", 0)
    \/ end_session(MaxTime)
    \/ /\ \A id \in current_session_id : RowsOf(developer_feedback, id) = {}
       /\ log_developer_feedback(Some(4), Some(4), Some(4), Some(TRUE), 0)
    \/ \E id \in current_session_id :
          /\ RowsOf(build_results, id) = {}
          /\ add_build_result(id, "test", TRUE, 0)
    \/ \E id \in SessionIds : calculate_session_metrics(id, MaxTime)
    \/ \E tool_a \in Tools, tool_b \in Tools :
          calculate_tool_comparison(tool_a, tool_b, None, MaxTime)
    \/ \E tool \in ToolFilters : get_session_summary_stats(tool, None, MaxTime)

SpecConnections == Init /\ [][NextConnections]_vars

\* The names of the phases a developer announces.
Phases == {"A", "B"}

\* The latest reading of the clock the tracker has stamped on a phase.
TrackerClock ==
    LET stamps == { timing_phases[phase].start_time : phase \in DOMAIN timing_phases }
                     \cup UNION { timing_phases[phase].end_time :
                                    phase \in DOMAIN timing_phases }
    IN  IF stamps = {} THEN 0 ELSE CHOOSE t \in stamps : \A u \in stamps : u <= t

\* The tracker of session 1 alone: phases are started and completed and the
\* analysis is generated, in any order, on a clock that does not run
\* backwards.
NextTracker ==
    \/ \E phase_name \in Phases, completed_at \in Times, now \in Times :
          /\ TrackerClock <= completed_at
          /\ completed_at <= now
          /\ tracker_start_phase(manager.session_id, phase_name, completed_at, now)
    \/ \E now \in Times :
          /\ TrackerClock <= now
          /\ tracker_complete_current_phase(manager.session_id, now)
    \/ \E now \in Times :
          /\ TrackerClock <= now
          /\ generate_analysis(manager.session_id, now)

SpecTracker == InitStarted /\ [][NextTracker]_vars


\* The latest reading of the clock stamped on a phase or on a milestone.
ManagerClock ==
    LET stamps == { TrackerClock }
                     \cup { row.timestamp : row \in BagToSet(development_milestones) }
    IN  CHOOSE t \in stamps : \A u \in stamps : u <= t

\* The session manager of session 1: monitoring is started and stopped,
\* phases are started and completed through the manager, in any order, on a
\* clock that does not run backwards.
NextManager ==
    \/ \E enable_timing_tracking \in BOOLEAN : start_monitoring(enable_timing_tracking)
    \/ \E now \in Times :
          /\ ManagerClock <= now
          /\ stop_monitoring(now)
    \/ \E phase_name \in Phases, completed_at \in Times, now \in Times, logged \in Times :
          /\ ManagerClock <= completed_at
          /\ completed_at <= now
          /\ now <= logged
          /\ start_phase(phase_name, completed_at, now, logged)
    \/ \E now \in Times, logged \in Times :
          /\ ManagerClock <= now
          /\ now <= logged
          /\ complete_current_phase(now, logged)

SpecManager == InitStarted /\ [][NextManager]_vars

\* ------------------------------------------------------------------ claims
IsMetrics == result.kind = "SessionMetrics"

PhaseNames == { <<"A">>, <<"B">> }

Durations == 0 .. MaxTime

\* The milestone is one the segmenter reads as the start (the completion)
\* of the phase.
IsStartOf(milestone, phase) ==
    /\ startswith(milestone.milestone_name, phase_start_)
    /\ replace(milestone.milestone_name, phase_start_) = phase

IsCompleteOf(milestone, phase) ==
    /\ ~ startswith(milestone.milestone_name, phase_start_)
    /\ startswith(milestone.milestone_name, phase_complete_)
    /\ replace(milestone.milestone_name, phase_complete_) = phase

Milestones(session_id) == RowsOf(development_milestones, session_id)

\* The session's milestones of the phase are one start at t0 and one
\* completion at t0 + d, and nothing else.
OnlyPair(session_id, phase, t0, d) ==
    LET of_phase == { m \in Milestones(session_id) :
                         IsStartOf(m, phase) \/ IsCompleteOf(m, phase) }
    IN  /\ CountRows(development_milestones, of_phase) = 2
        /\ \E m \in of_phase : IsStartOf(m, phase) /\ m.timestamp = t0
        /\ \E m \in of_phase : IsCompleteOf(m, phase) /\ m.timestamp = t0 + d

PairYields(phase, d) ==
    /\ phase \in DOMAIN result.phase_durations
    /\ result.phase_durations[phase] = d
    /\ result.total_phases = Cardinality(DOMAIN result.phase_durations)

\* C2 as stated: a session whose only milestones for phase A are a start at
\* t0 and a completion at t0 + d, for any d >= 0, has A -> d in its phase
\* durations, counted once in total_phases.
C2_Original ==
    IsMetrics =>
        \A phase \in PhaseNames, t0 \in Times, d \in Durations :
            OnlyPair(result.session_id, phase, t0, d) => PairYields(phase, d)

\* C2 (amended): when the completion is strictly later than the start
\* (d > 0) the phase durations hold A -> d, counted once; when both carry
\* the same timestamp (d = 0) the entry is either A -> 0 or absent,
\* depending on which of the two the ordered query returns first.
C2_PairDuration ==
    IsMetrics =>
        \A phase \in PhaseNames, t0 \in Times, d \in Durations :
            OnlyPair(result.session_id, phase, t0, d) =>
                IF d > 0 THEN PairYields(phase, d)
                ELSE phase \in DOMAIN result.phase_durations
                        => PairYields(phase, 0)

C2_Witness ==
    /\ IsMetrics
    /\ OnlyPair(result.session_id, <<"A">>, 0, 1)
    /\ result.phase_durations[<<"A">>] = 1
    /\ result.total_phases = 1

\* The iterations of the segmenter's loop over a query result that read a
\* start (a completion) of the phase.
StartsBefore(milestones, n, phase) ==
    { j \in 1 .. n - 1 : IsStartOf(milestones[j], phase) }

Last(indices) == CHOOSE i \in indices : \A j \in indices : j <= i

C4_Original ==
    \A id \in 1 .. Len(test_sessions) :
    \A milestones \in MilestoneQuery(id) :
    \A n \in DOMAIN milestones, phase \in PhaseNames :
        (/\ IsCompleteOf(milestones[n], phase)
         /\ \E i \in 1 .. n - 1 :
               /\ IsCompleteOf(milestones[i], phase)
               /\ StartsBefore(milestones, i, phase) # {}
               /\ \A j \in i + 1 .. n - 1 : ~ IsStartOf(milestones[j], phase))
        => PhaseScan(milestones, n).phase_durations
              = PhaseScan(milestones, n - 1).phase_durations

\* C6: the duration recorded when a completion of X is read is measured
\* from the most recent start of X that precedes it in the ordered list,
\* whatever earlier starts of X there are.
C6_LastStartWins ==
    \A id \in 1 .. Len(test_sessions) :
    \A milestones \in MilestoneQuery(id) :
    \A n \in DOMAIN milestones, phase \in PhaseNames :
        (/\ IsCompleteOf(milestones[n], phase)
         /\ StartsBefore(milestones, n, phase) # {})
        => /\ phase \in DOMAIN PhaseScan(milestones, n).phase_durations
           /\ PhaseScan(milestones, n).phase_durations[phase]
                 = milestones[n].timestamp
                   - milestones[Last(StartsBefore(milestones, n, phase))].timestamp

\* Starts of A at 0 and at 1, one completion at 1, and the duration taken
\* from the start at 1.
C6_Witness ==
    /\ IsMetrics
    /\ \E s \in Milestones(result.session_id) :
          IsStartOf(s, <<"A">>) /\ s.timestamp = 0
    /\ \E s \in Milestones(result.session_id) :
          IsStartOf(s, <<"A">>) /\ s.timestamp = 1
    /\ \A c \in Milestones(result.session_id) :
          IsCompleteOf(c, <<"A">>) => c.timestamp = 1
    /\ <<"A">> \in DOMAIN result.phase_durations
    /\ result.phase_durations[<<"A">>] = 0

\* C7: every phase duration of a metrics record is non-negative, whatever
\* the timestamps of the session's milestones are.
C7_DurationsNonNegative ==
    /\ IsMetrics =>
          \A phase \in DOMAIN result.phase_durations :
             result.phase_durations[phase] >= 0
    /\ \A id \in 1 .. Len(test_sessions) :
       \A milestones \in MilestoneQuery(id) :
       \A n \in 0 .. Len(milestones) :
       \A phase \in DOMAIN PhaseScan(milestones, n).phase_durations :
          PhaseScan(milestones, n).phase_durations[phase] >= 0

\* A completion stamped earlier than a start of its phase, in a session
\* for which a duration is recorded.
C7_Witness ==
    /\ IsMetrics
    /\ \E s, c \in Milestones(result.session_id) :
          /\ IsStartOf(s, <<"A">>) /\ IsCompleteOf(c, <<"A">>)
          /\ c.timestamp < s.timestamp
    /\ <<"A">> \in DOMAIN result.phase_durations

\* The window the recorded duration of a phase was computed from: the
\* last completion of the phase that found an open start, and that start.
MatchedCompletes(milestones, phase) ==
    { n \in DOMAIN milestones :
        /\ IsCompleteOf(milestones[n], phase)
        /\ StartsBefore(milestones, n, phase) # {} }

WindowCount(session_id, milestones, phase) ==
    LET n == Last(MatchedCompletes(milestones, phase))
        start == milestones[Last(StartsBefore(milestones, n, phase))].timestamp
        complete == milestones[n].timestamp
    IN  CountRows(ai_interactions, { i \in RowsOf(ai_interactions, session_id) :
            i.timestamp >= start /\ i.timestamp <= complete })

\* C5 as stated: for every phase with a recorded duration, the per-phase AI
\* interaction count is the number of the session's interactions stamped
\* within the [start, complete] window the duration was computed from.
C5_Original ==
    \A id \in 1 .. Len(test_sessions) :
    \A milestones \in MilestoneQuery(id) :
        LET phases == _calculate_phase_metrics(id, milestones) IN
        \A phase \in PhaseNames \cap DOMAIN phases.phase_durations :
            /\ phase \in DOMAIN phases.phase_ai_usage
            /\ phases.phase_ai_usage[phase] = WindowCount(id, milestones, phase)

\* ------------------------------------------------------- claims: quality
Builds(session_id) == RowsOf(build_results, session_id)

\* C1 as stated: calculate_session_metrics returns None only for a session
\* id that does not exist; for every existing session, whatever child
\* records it has, it returns a SessionMetrics record.
C1_Original ==
    \A id \in SessionIds, now \in Times :
    \A milestones \in MilestoneQuery(id), feedback \in FeedbackFirst(id) :
        SessionMetrics(id, now, milestones, feedback).kind = "None"
            <=> ~ SessionExists(id)

\* The test counts the claim sums over the builds of kind 'test'.
ClaimedPassed(session_id) ==
    LET passed(b) == IF hasattr(b, "tests_passed") THEN OrElse(b.tests_passed, 0) ELSE 0
    IN  SumRows(build_results,
                { b \in Builds(session_id) : b.build_type = "test" }, passed)

ClaimedFailed(session_id) ==
    LET failed(b) == IF hasattr(b, "tests_failed") THEN OrElse(b.tests_failed, 0) ELSE 0
    IN  SumRows(build_results,
                { b \in Builds(session_id) : b.build_type = "test" }, failed)

\* C8 as stated: every session gets a test_pass_rate, which is
\* 100 * passed / (passed + failed) over its builds of kind 'test', and 0
\* when it has no test build or no tests.
C8_Original ==
    \A id \in 1 .. Len(test_sessions), now \in Times :
    \A milestones \in MilestoneQuery(id), feedback \in FeedbackFirst(id) :
        LET metrics == SessionMetrics(id, now, milestones, feedback)
            passed == ClaimedPassed(id)
            tests == ClaimedPassed(id) + ClaimedFailed(id)
        IN  /\ metrics.kind = "SessionMetrics"
            /\ metrics.test_pass_rate[1] * tests
                  = 100 * passed * metrics.test_pass_rate[2]
            /\ tests = 0 => metrics.test_pass_rate = Zero

\* C9: in every metrics record code_quality_score is the arithmetic mean of
\* build_success_rate and test_pass_rate, build_success_rate is
\* 100 * successful builds / total builds, and with no builds at all the
\* three quality values are 0.
C9_QualityScore ==
    IsMetrics =>
        LET builds == Builds(result.session_id)
            total == CountRows(build_results, builds)
            successful == CountRows(build_results, { b \in builds : b.success })
            rate == result.build_success_rate
            tests == result.test_pass_rate
            score == result.code_quality_score
        IN  /\ 2 * score[1] * rate[2] * tests[2]
                  = score[2] * (rate[1] * tests[2] + tests[1] * rate[2])
            /\ rate[1] * total = 100 * successful * rate[2]
            /\ total = 0 => rate = Zero /\ tests = Zero /\ score = Zero

\* One successful and one failed compile build: rate 50, score 25.
C9_Witness ==
    /\ IsMetrics
    /\ CountRows(build_results, Builds(result.session_id)) = 2
    /\ result.build_success_rate = <<50, 1>>
    /\ result.code_quality_score = <<25, 1>>

\* ------------------------------------------------------ claims: AI usage
Interacted(session_id) == RowsOf(ai_interactions, session_id)

\* C10: for a session with zero AI interactions the AI metrics are computed
\* without a fault and the metrics record has average_quality_rating,
\* helpful_interactions_percentage, ai_interactions_per_hour,
\* total_tokens_used and total_cost_estimate all 0.
C10_NoInteractionsZero ==
    /\ \A id \in 1 .. Len(test_sessions), now \in Times :
          Interacted(id) = {} => ~ Raised(_calculate_ai_metrics(id, now))
    /\ (IsMetrics /\ Interacted(result.session_id) = {}) =>
          /\ result.average_quality_rating = Zero
          /\ result.helpful_interactions_percentage = Zero
          /\ result.ai_interactions_per_hour = Zero
          /\ result.total_tokens_used = 0
          /\ result.total_cost_estimate = 0

\* The record of a session without interactions, ended after one minute,
\* next to a session that has an interaction.
C10_Witness ==
    /\ IsMetrics
    /\ Interacted(result.session_id) = {}
    /\ result.total_ai_interactions = 0
    /\ result.total_duration_minutes > 0
    /\ ai_interactions # EmptyBag

\* ------------------------------------------------- claims: productivity
Changed(session_id) == RowsOf(code_changes, session_id)

\* C11: no zero denominator raises: the productivity and the AI metrics are
\* computed for every session at every reading of the clock; the record of
\* a session whose duration is zero has lines_per_minute, files_per_hour
\* and ai_interactions_per_hour 0; the record of a session with neither
\* interactions nor code changes has ai_assistance_ratio 0.
C11_DegenerateZero ==
    /\ \A id \in 1 .. Len(test_sessions), now \in Times :
          /\ ~ Raised(_calculate_ai_metrics(id, now))
          /\ ~ Raised(_calculate_productivity_metrics(
                    _calculate_timing_metrics(test_sessions[id], now),
                    _calculate_code_metrics(id), _calculate_ai_metrics(id, now)))
    /\ (IsMetrics /\ result.total_duration_minutes = 0) =>
          /\ result.lines_per_minute = Zero
          /\ result.files_per_hour = Zero
          /\ result.ai_interactions_per_hour = Zero
    /\ (/\ IsMetrics
        /\ Interacted(result.session_id) = {}
        /\ Changed(result.session_id) = {}) =>
          result.ai_assistance_ratio = Zero

\* The record of a session ended in the minute it was started, with lines
\* added and an interaction logged.
C11_Witness ==
    /\ IsMetrics
    /\ test_sessions[result.session_id].end_time
          = Some(test_sessions[result.session_id].start_time)
    /\ result.total_duration_minutes = 0
    /\ result.lines_added > 0
    /\ result.total_ai_interactions > 0
    /\ result.lines_per_minute = Zero

\* The changes of the session, one by one: a sequence that holds every row
\* of the table as often as the table does.
ChangeLists(session_id) ==
    OrderByTimestamp(code_changes, Changed(session_id))

RECURSIVE LinesAddedUpTo(_, _)
LinesAddedUpTo(changes, n) ==
    IF n = 0 THEN 0
    ELSE LinesAddedUpTo(changes, n - 1)
            + (IF changes[n].lines_added = None THEN 0
               ELSE Value(changes[n].lines_added))

DistinctPaths(session_id) ==
    { path \in { c.file_path : c \in Changes } :
        \E c \in Changed(session_id) : c.file_path = path }

\* C12: lines_added of a metrics record is the sum of lines_added over the
\* session's code changes, an absent value counting as 0, and the file
\* count files_per_hour is computed from is the number of distinct file
\* paths among them: files_per_hour = distinct paths / duration in hours.
C12_CodeSums ==
    /\ IsMetrics =>
          /\ \A changes \in ChangeLists(result.session_id) :
                result.lines_added = LinesAddedUpTo(changes, Len(changes))
          /\ result.total_duration_minutes > 0 =>
                result.files_per_hour[1] * result.total_duration_minutes
                   = 60 * Cardinality(DistinctPaths(result.session_id))
                        * result.files_per_hour[2]
    /\ \A id \in 1 .. Len(test_sessions) :
          _calculate_code_metrics(id).unique_files
             = Cardinality(DistinctPaths(id))

\* Two changes of the same file, two lines each, in a session that lasted
\* a minute: 4 lines, 1 file, 60 files per hour.
C12_Witness ==
    /\ IsMetrics
    /\ CountRows(code_changes, Changed(result.session_id)) = 2
    /\ result.lines_added = 4
    /\ result.total_duration_minutes = 1
    /\ result.files_per_hour = <<60, 1>>

\* ----------------------------------------------------- claims: ratings
Rated(session_id) ==
    { i \in Interacted(session_id) : i.quality_rating # None }

RatingSum(session_id) ==
    SumOver(Rated(session_id),
            [i \in Rated(session_id) |->
                CopiesIn(i, ai_interactions) * Value(i.quality_rating)])

\* C13: in the record of a session that has interactions,
\* average_quality_rating is the sum of the ratings divided by the number
\* of interactions that carry a rating, those without one being left out
\* of both, and helpful_interactions_percentage is 100 times the number
\* of interactions flagged helpful divided by the number of all the
\* interactions, flagged or not.
C13_RatedMean ==
    (IsMetrics /\ Interacted(result.session_id) # {}) =>
        LET id == result.session_id
            rated == CountRows(ai_interactions, Rated(id))
            total == CountRows(ai_interactions, Interacted(id))
            helpful == CountRows(ai_interactions,
                { i \in Interacted(id) : i.was_helpful = Some(TRUE) })
            average == result.average_quality_rating
            percentage == result.helpful_interactions_percentage
        IN  /\ rated > 0 => average[1] * rated = RatingSum(id) * average[2]
            /\ percentage[1] * total = 100 * helpful * percentage[2]

\* An interaction rated 4 and flagged helpful next to one with neither a
\* rating nor a flag: the mean is 4, not 2, and the percentage 50.
C13_Witness ==
    /\ IsMetrics
    /\ CountRows(ai_interactions, Interacted(result.session_id)) = 2
    /\ CountRows(ai_interactions, Rated(result.session_id)) = 1
    /\ \E i \in Interacted(result.session_id) : i.was_helpful = None
    /\ result.average_quality_rating = <<4, 1>>
    /\ result.helpful_interactions_percentage = <<50, 1>>

\* ---------------------------------------------------- claims: feedback
FeedbackOf(session_id) == RowsOf(developer_feedback, session_id)

\* C14: the record of a session without a feedback row has
\* satisfaction_rating, ease_of_use_rating, productivity_rating and
\* would_recommend all None, never 0 or False; the record of a session
\* with feedback has the four values stored in a feedback row of the
\* session.
C14_FeedbackOrNone ==
    IsMetrics =>
        IF FeedbackOf(result.session_id) = {}
        THEN /\ result.satisfaction_rating = None
             /\ result.ease_of_use_rating = None
             /\ result.productivity_rating = None
             /\ result.would_recommend = None
        ELSE \E row \in FeedbackOf(result.session_id) :
                /\ result.satisfaction_rating = row.overall_satisfaction
                /\ result.ease_of_use_rating = row.ease_of_use_rating
                /\ result.productivity_rating = row.productivity_rating
                /\ result.would_recommend = row.would_recommend

\* The record of a session without feedback, computed while another
\* session has a feedback row.
C14_Witness ==
    /\ IsMetrics
    /\ FeedbackOf(result.session_id) = {}
    /\ developer_feedback # EmptyBag
    /\ result.satisfaction_rating = None
    /\ result.would_recommend = None

\* --------------------------------------------------- claims: comparison
IsComparison == result.kind = "ComparisonMetrics"

\* The comparisons calculate_tool_comparison can return in this state.
Cohorts(tool_a, tool_b, type) ==
    CompletedSessions(Some(tool_a), type) \cup CompletedSessions(Some(tool_b), type)

Compared(tool_a, tool_b, type, queries) ==
    CHOOSE record \in
        { ToolComparison(tool_a, tool_b, type, metrics) :
            metrics \in { AllMetrics(Cohorts(tool_a, tool_b, type), MaxTime, queries) } } :
        TRUE

\* C15 as stated: calculate_tool_comparison returns None exactly when one
\* of the two cohorts of completed sessions, after the scenario filter, is
\* empty; with two non-empty cohorts it returns a comparison record, also
\* when sessions of a cohort carry no feedback.
C15_Original ==
    \A tool_a \in Tools, tool_b \in Tools, type \in Filters :
    \A queries \in QueryChoices(Cohorts(tool_a, tool_b, type)) :
        Compared(tool_a, tool_b, type, queries).kind = "None"
            <=> \/ CompletedSessions(Some(tool_a), type) = {}
                \/ CompletedSessions(Some(tool_b), type) = {}

\* The scenario filter the comparison in result was called with.
ResultFilter ==
    IF result.test_case_type = "all" THEN None ELSE Some(result.test_case_type)

\* The query results that make calculate_tool_comparison return result.
ResultQueries ==
    { queries \in QueryChoices(
                     Cohorts(result.tool_a_name, result.tool_b_name, ResultFilter)) :
        Compared(result.tool_a_name, result.tool_b_name, ResultFilter, queries)
           = result }

\* C17: swapping the two tools negates satisfaction_difference and names
\* the same tool the winner: when compare(X, Y) has returned a record,
\* compare(Y, X) returns a record too, the two differences add up to 0 and
\* the two preference winners are the same tool, or both 'tie'.
C17_PreferenceSymmetry ==
    IsComparison =>
        \A queries \in ResultQueries :
        \A back \in { Compared(result.tool_b_name, result.tool_a_name,
                                ResultFilter, queries) } :
            /\ back.kind = "ComparisonMetrics"
            /\ FracAdd(result.satisfaction_difference,
                       back.satisfaction_difference) = Zero
            /\ back.preference_winner = result.preference_winner

\* A comparison won by its first tool with a difference of a whole point,
\* whose reverse is won by the same tool.
C17_Witness ==
    /\ IsComparison
    /\ result.tool_a_name # result.tool_b_name
    /\ result.preference_winner = result.tool_a_name
    /\ result.satisfaction_difference = <<1, 1>>
    /\ \E queries \in ResultQueries :
          LET back == Compared(result.tool_b_name, result.tool_a_name,
                               ResultFilter, queries)
          IN  /\ back.preference_winner = result.tool_a_name
              /\ back.satisfaction_difference = <<0 - 1, 1>>

\* The satisfaction ratings the feedback queries found for the sessions of
\* a cohort: their sum and their number.
RatedSessions(ids, queries) ==
    { id \in ids : /\ queries[id].feedback # None
                   /\ Value(queries[id].feedback).overall_satisfaction # None }

SatisfactionSum(ids, queries) ==
    SumOver(RatedSessions(ids, queries),
            [id \in RatedSessions(ids, queries) |->
                Value(Value(queries[id].feedback).overall_satisfaction)])

\* The winner the deadband rule names for the means sum_a / n_a and
\* sum_b / n_b: the difference is compared with 1/2 and -1/2.
DeadbandWinner(tool_a, tool_b, sum_a, n_a, sum_b, n_b) ==
    IF 2 * (sum_a * n_b - sum_b * n_a) > n_a * n_b THEN tool_a
    ELSE IF 2 * (sum_a * n_b - sum_b * n_a) < 0 - n_a * n_b THEN tool_b
    ELSE "tie"

\* C18: the preference winner of every comparison record is tool A when
\* the satisfaction mean of A minus that of B is more than 0.5, tool B when
\* it is less than -0.5, and 'tie' otherwise; so 4.4 against 4.0 and a
\* difference of exactly 0.5 are ties, and 4.6 against 4.0 is won by A.
C18_Deadband ==
    /\ IsComparison =>
          \A queries \in ResultQueries :
             LET a == CompletedSessions(Some(result.tool_a_name), ResultFilter)
                 b == CompletedSessions(Some(result.tool_b_name), ResultFilter)
             IN  result.preference_winner =
                    DeadbandWinner(result.tool_a_name, result.tool_b_name,
                        SatisfactionSum(a, queries),
                        Cardinality(RatedSessions(a, queries)),
                        SatisfactionSum(b, queries),
                        Cardinality(RatedSessions(b, queries)))
    /\ preference_winner("A", "B", FracSub(<<22, 5>>, <<4, 1>>)) = "tie"
    /\ preference_winner("A", "B", FracSub(<<9, 2>>, <<4, 1>>)) = "tie"
    /\ preference_winner("A", "B", FracSub(<<23, 5>>, <<4, 1>>)) = "A"
    /\ preference_winner("A", "B", FracSub(<<4, 1>>, <<23, 5>>)) = "B"
    /\ preference_winner("A", "B", FracSub(<<4, 1>>, <<9, 2>>)) = "tie"

\* Satisfaction 4 and 5 in one cohort against 4 in the other: a
\* difference of exactly 0.5 and a tie.
C18_Witness ==
    /\ IsComparison
    /\ result.satisfaction_difference = <<1, 2>>
    /\ result.preference_winner = "tie"
    /\ result.sample_size_a = 2
    /\ result.sample_size_b = 1

\* ------------------------------------------------------- claims: axes
\* The comparison of the same two tools the other way round, from the
\* same query results.
Reverse(queries) ==
    Compared(result.tool_b_name, result.tool_a_name, ResultFilter, queries)

Negatives(p, q) == FracAdd(p, q) = Zero

\* The two percentages do not have the same sign.
Opposed(p, q) ==
    /\ ~ (FracLess(Zero, p) /\ FracLess(Zero, q))
    /\ ~ (FracLess(p, Zero) /\ FracLess(q, Zero))

\* C16 as stated: the speed, productivity and quality improvement
\* percentages of compare(X, Y) are the arithmetic negatives of those of
\* compare(Y, X).
C16_Original ==
    IsComparison =>
        \A queries \in ResultQueries :
        \A back \in { Reverse(queries) } :
            /\ back.kind = "ComparisonMetrics"
            /\ Negatives(result.speed_improvement_percentage,
                         back.speed_improvement_percentage)
            /\ Negatives(result.productivity_improvement_percentage,
                         back.productivity_improvement_percentage)
            /\ Negatives(result.code_quality_improvement_percentage,
                         back.code_quality_improvement_percentage)

\* C16 (amended): when compare(X, Y) has returned a record, compare(Y, X)
\* returns one too, and on each of the three axes the percentages of the
\* two records never have the same sign; they are not arithmetic negatives
\* in general, each being relative to the mean of its own second tool:
\* mean durations of 1 and 1/2 minutes give -100 one way and 50 the other,
\* means of 2 and 1 on the other axes give 100 and -50.
C16_PercentagesOpposed ==
    /\ IsComparison =>
          \A queries \in ResultQueries :
          \A back \in { Reverse(queries) } :
              /\ back.kind = "ComparisonMetrics"
              /\ Opposed(result.speed_improvement_percentage,
                         back.speed_improvement_percentage)
              /\ Opposed(result.productivity_improvement_percentage,
                         back.productivity_improvement_percentage)
              /\ Opposed(result.code_quality_improvement_percentage,
                         back.code_quality_improvement_percentage)
    /\ speed_improvement(<<1, 1>>, <<1, 2>>) = <<0 - 100, 1>>
    /\ speed_improvement(<<1, 2>>, <<1, 1>>) = <<50, 1>>
    /\ improvement(<<2, 1>>, <<1, 1>>) = <<100, 1>>
    /\ improvement(<<1, 1>>, <<2, 1>>) = <<0 - 50, 1>>

\* Mean durations of 1 and 1/2 minutes: -100 one way, 50 the other.
C16_Witness ==
    /\ IsComparison
    /\ result.speed_improvement_percentage = <<0 - 100, 1>>
    /\ \E queries \in ResultQueries :
          Reverse(queries).speed_improvement_percentage = <<50, 1>>

\* On one axis: with a non-zero reference mean the percentage is positive
\* exactly when tool A is better, and with a zero one it is 0.
Better(percentage, better, avg_b) ==
    /\ avg_b # Zero => (FracLess(Zero, percentage) <=> better)
    /\ avg_b = Zero => percentage = Zero

\* C19: in every comparison record a positive percentage means tool A
\* did better: with a non-zero mean of tool B, speed_improvement_percentage
\* is positive exactly when the mean duration of A is lower than that of
\* B, the productivity and the quality improvement exactly when the mean
\* of A is higher; each percentage is 0 when the mean of B is zero.
C19_PositiveMeansBetter ==
    IsComparison =>
        \A queries \in ResultQueries :
        \A metrics \in { AllMetrics(Cohorts(result.tool_a_name, result.tool_b_name,
                                            ResultFilter), MaxTime, queries) } :
            LET a == CompletedSessions(Some(result.tool_a_name), ResultFilter)
                b == CompletedSessions(Some(result.tool_b_name), ResultFilter)
                duration_a == mean(a, DurationsOf(a, metrics))
                duration_b == mean(b, DurationsOf(b, metrics))
                productivity_a == mean(a, ProductivitiesOf(a, metrics))
                productivity_b == mean(b, ProductivitiesOf(b, metrics))
                quality_a == mean(a, QualitiesOf(a, metrics))
                quality_b == mean(b, QualitiesOf(b, metrics))
            IN  /\ Better(result.speed_improvement_percentage,
                          FracLess(duration_a, duration_b), duration_b)
                /\ Better(result.productivity_improvement_percentage,
                          FracLess(productivity_b, productivity_a), productivity_b)
                /\ Better(result.code_quality_improvement_percentage,
                          FracLess(quality_b, quality_a), quality_b)

\* Tool A faster and of better quality, tool B more productive.
C19_Witness ==
    /\ IsComparison
    /\ FracLess(Zero, result.speed_improvement_percentage)
    /\ FracLess(result.productivity_improvement_percentage, Zero)
    /\ FracLess(Zero, result.code_quality_improvement_percentage)

\* ----------------------------------------------------- claims: summary
DurationOf(session_id) ==
    Value(test_sessions[session_id].end_time) - test_sessions[session_id].start_time

\* The summary is one of exactly one session, of that duration.
SingleSession(summary, session_id) ==
    /\ summary.kind = "SummaryStats"
    /\ summary.total_sessions = 1
    /\ summary.duration.std_dev = Sqrt(Zero)
    /\ summary.duration.mean = <<DurationOf(session_id), 1>>
    /\ summary.duration.median = summary.duration.mean
    /\ summary.duration.min = summary.duration.mean
    /\ summary.duration.max = summary.duration.mean
    /\ summary.productivity.median = summary.productivity.mean
    /\ summary.quality.median = summary.quality.mean

\* C20 as stated: get_session_summary_stats over a cohort of exactly one
\* completed session returns duration std_dev 0 and duration mean =
\* median = min = max = the duration of that session, and mean = median
\* for productivity and for quality.
C20_Original ==
    \A tool \in ToolFilters :
    \A sessions \in { CompletedSessions(tool, None) } :
    \A id \in sessions :
        sessions = {id} =>
            \A queries \in QueryChoices(sessions) :
            \A metrics \in { AllMetrics(sessions, MaxTime, queries) } :
                SingleSession(SummaryStats(tool, None, metrics), id)

\* ------------------------------------------------- claims: connections
\* C23: every call of calculate_session_metrics, calculate_tool_comparison
\* and get_session_summary_stats has closed every data-store session it
\* opened when it returns, on the success path, on the not-found and
\* insufficient-data paths and on the fault path, the sessions of the
\* nested calculate_session_metrics calls included.
C23_ConnectionsReleased == connections = 0

\* A comparison record is returned although a nested call, for a session
\* with a test run, took the fault path.
C23_Witness ==
    /\ IsComparison
    /\ connections = 0
    /\ \E id \in CompletedSessions(Some(result.tool_a_name), None) :
          \E b \in RowsOf(build_results, id) : b.build_type = "test"

\* ------------------------------------------------------ claims: cohorts
\* C21 as stated: the cohort of a summary is the set of completed sessions
\* that match the filter: the summary is empty when no completed session
\* matches, and otherwise total_sessions is the number of matching
\* completed sessions.
C21_Original ==
    \A tool \in ToolFilters :
    \A sessions \in { CompletedSessions(tool, None) } :
    \A queries \in QueryChoices(sessions) :
    \A summary \in { SummaryStats(tool, None, AllMetrics(sessions, MaxTime, queries)) } :
        IF sessions = {}
        THEN summary.kind = "{}"
        ELSE /\ summary.kind = "SummaryStats"
             /\ summary.total_sessions = Cardinality(sessions)

\* ---------------------------------------------- claims: sequence numbers
\* C22 as stated: after any interleaving of log_ai_interaction calls on one
\* session, calls of two logger instances whose query and insert overlap
\* included, no two interactions of the session share a sequence number.
C22_Original ==
    \A id \in 1 .. Len(test_sessions) :
        LET rows == RowsOf(ai_interactions, id) IN
        CountRows(ai_interactions, rows)
           = Cardinality({ row.interaction_sequence : row \in rows })

\* ------------------------------------------------------ claims: feedback
\* C24 as stated: after any sequence of logger operations a session has at
\* most one DeveloperFeedback record.
C24_Original ==
    \A id \in 1 .. Len(test_sessions) :
        CountRows(developer_feedback, RowsOf(developer_feedback, id)) <= 1

\* -------------------------------------------------------- claims: frame
children == <<ai_interactions, code_changes, development_milestones,
              build_results, developer_feedback>>

\* A session is in progress with no end time, or completed with an end
\* time that is not before its start time.
SessionsWellFormed ==
    \A id \in 1 .. Len(test_sessions) :
        LET session == test_sessions[id] IN
        \/ session.status = "in_progress" /\ session.end_time = None
        \/ /\ session.status = "completed"
           /\ session.end_time # None
           /\ \A end_time \in session.end_time : end_time >= session.start_time

\* A step creates sessions in progress or completes the current one, and
\* a step that writes a child record changes no session.
SessionStep ==
    /\ Len(test_sessions') >= Len(test_sessions)
    /\ \A id \in 1 .. Len(test_sessions) :
          test_sessions'[id] # test_sessions[id] =>
              /\ current_session_id = Some(id)
              /\ test_sessions[id].status = "in_progress"
              /\ test_sessions'[id].status = "completed"
              /\ test_sessions'[id].end_time # None
              /\ test_sessions'[id] =
                    [test_sessions[id] EXCEPT !.status = "completed",
                                              !.end_time = test_sessions'[id].end_time]
    /\ \A id \in Len(test_sessions) + 1 .. Len(test_sessions') :
          /\ test_sessions'[id].status = "in_progress"
          /\ test_sessions'[id].end_time = None
    /\ children' # children => test_sessions' = test_sessions

\* C25: session records change only at creation and at completion:
\* start_session creates a session in progress with no end time,
\* end_session sets the status completed and the end time, not before the
\* start time, no log_ai_interaction, log_milestone, log_code_change or
\* log_developer_feedback call changes a field of a session, and in every
\* reachable state a completed session has its end time.
C25_SessionsFrame == []SessionsWellFormed /\ [][SessionStep]_vars

\* A completed session that lasted a minute and has a child record, next
\* to a session in progress.
C25_Witness ==
    \E id \in 1 .. Len(test_sessions) :
        /\ test_sessions[id].status = "completed"
        /\ test_sessions[id].end_time = Some(test_sessions[id].start_time + 1)
        /\ RowsOf(development_milestones, id) # {}
        /\ \E other \in 1 .. Len(test_sessions) :
              test_sessions[other].status = "in_progress"

\* Every child record belongs to an existing session.
ChildrenReferSessions ==
    /\ \A row \in BagToSet(ai_interactions) : SessionExists(row.session_id)
    /\ \A row \in BagToSet(code_changes) : SessionExists(row.session_id)
    /\ \A row \in BagToSet(development_milestones) : SessionExists(row.session_id)
    /\ \A row \in BagToSet(developer_feedback) : SessionExists(row.session_id)

\* A logger call without a current session, other than start_session,
\* leaves the store as it is.
NoSessionStep ==
    (current_session_id = None /\ Len(test_sessions') = Len(test_sessions))
        => UNCHANGED store_vars

\* C26: every child record the logger appends references an existing
\* session, and when the logger has no current session each of
\* log_ai_interaction, log_milestone, log_code_change,
\* log_developer_feedback and end_session appends nothing and leaves the
\* whole store unchanged.
C26_NoSessionNoOp == []ChildrenReferSessions /\ [][NoSessionStep]_vars

\* After end_session: no current session, and the one session has room
\* for every kind of child record.
C26_Witness ==
    /\ current_session_id = None
    /\ Len(test_sessions) = 1
    /\ test_sessions[1].status = "completed"
    /\ BagCardinality(development_milestones) = 1
    /\ ai_interactions = EmptyBag
    /\ code_changes = EmptyBag
    /\ developer_feedback = EmptyBag

\* --------------------------------------------------- claims: phase maps
\* C27 as stated: in every metrics record the key set of phase_ai_usage
\* equals the key set of phase_durations and total_phases is its size, so
\* a phase whose phase_start_X is unmatched (still open, or started after
\* its only completion) is in neither map.
C27_Original ==
    IsMetrics =>
        /\ DOMAIN result.phase_ai_usage = DOMAIN result.phase_durations
        /\ result.total_phases = Cardinality(DOMAIN result.phase_durations)

\* ----------------------------------------------------- claims: tracker
\* C28 as stated: generate_analysis leaves the tracker's phase state as it
\* found it, so when it has returned with a phase current, that phase is
\* still running (no end time) and is not among the completed phases.
C28_Original ==
    (result.kind = "SessionTimingAnalysis" /\ current_phase # None) =>
        /\ timing_phases[Value(current_phase)].end_time = None
        /\ \A k \in DOMAIN completed_phases : completed_phases[k] # Value(current_phase)

\* C29 as stated: at most one phase is running (has no end time), a phase
\* that is no longer current has been completed, every phase in
\* completed_phases has an end time not earlier than its start time, and
\* no phase is in completed_phases twice.
C29_Original ==
    /\ Cardinality({ phase \in DOMAIN timing_phases :
                        timing_phases[phase].end_time = None }) <= 1
    /\ \A phase \in DOMAIN timing_phases :
          \/ phase \in current_phase
          \/ timing_phases[phase].end_time # None
    /\ \A k \in DOMAIN completed_phases :
          /\ timing_phases[completed_phases[k]].end_time # None
          /\ Value(timing_phases[completed_phases[k]].end_time)
                >= timing_phases[completed_phases[k]].start_time
    /\ \A k, l \in DOMAIN completed_phases :
          completed_phases[k] = completed_phases[l] => k = l

\* ----------------------------------------------------- claims: manager
\* C30 as stated: every phase the tracker holds as completed has a
\* phase_start_<name> milestone and a phase_complete_<name> milestone that
\* is not earlier, in the store of the manager's session.
C30_Original ==
    \A k \in DOMAIN completed_phases :
       LET name == timing_phases[completed_phases[k]].name
           rows == RowsOf(development_milestones, manager.session_id)
       IN  \E started \in rows, completed \in rows :
              /\ started.milestone_name = <<phase_start_, name>>
              /\ completed.milestone_name = <<phase_complete_, name>>
              /\ completed.timestamp >= started.timestamp

====
